---- MODULE Spec2Model ----
(***************************************************************************)
(* The protocol client of the Panasonic Blu-ray integration                *)
(* (custom_components/panasonic_bd/api.py) as a state machine: a client    *)
(* object shared by asyncio tasks that call its public coroutines, the     *)
(* asyncio.Lock that serialises _send_request, the lazily created aiohttp  *)
(* session, the inferred player type, and the device as the environment    *)
(* that answers each POST.                                                 *)
(*                                                                         *)
(* Text (str) is a sequence of one-character strings, so that upper(),     *)
(* strip(), split() and int() are computed and not assumed.                *)
(***************************************************************************)
EXTENDS Integers, Sequences, FiniteSets, TLC

(***************************************************************************)
(* Text helpers                                                            *)
(***************************************************************************)
LowerLetters ==
    <<"a","b","c","d","e","f","g","h","i","j","k","l","m",
      "n","o","p","q","r","s","t","u","v","w","x","y","z">>

UpperLetters ==
    <<"A","B","C","D","E","F","G","H","I","J","K","L","M",
      "N","O","P","Q","R","S","T","U","V","W","X","Y","Z">>

IndexIn(c, letters) == CHOOSE i \in 1..Len(letters) : letters[i] = c

IsIn(c, letters) == \E i \in 1..Len(letters) : letters[i] = c

\* str.upper() on one ASCII character
UpperChar(c) == IF IsIn(c, LowerLetters) THEN UpperLetters[IndexIn(c, LowerLetters)] ELSE c

\* str.upper()
Upper(s) == [i \in 1..Len(s) |-> UpperChar(s[i])]

\* str.lower() on one ASCII character, and str.lower()
LowerChar(c) == IF IsIn(c, UpperLetters) THEN LowerLetters[IndexIn(c, UpperLetters)] ELSE c

Lower(s) == [i \in 1..Len(s) |-> LowerChar(s[i])]

(***************************************************************************)
(* const.py: the player types, the status labels, the command vocabulary   *)
(***************************************************************************)
AUTO == "auto"

BD == "bd"

UHD == "uhd"

PlayerType == {AUTO, BD, UHD}

POWER_OFF == "Power Off"

STOPPED == "Stopped"

PLAYBACK == "Playback"

PAUSE_PLAYBACK == "Pause Playback"

UNKNOWN == "Unknown"

BD_COMMANDS ==
    {
      <<"P","O","W","E","R">>, <<"P","O","W","E","R","O","N">>,
      <<"P","O","W","E","R","O","F","F">>, <<"O","P","_","C","L">>,
      <<"P","L","A","Y","B","A","C","K">>, <<"P","A","U","S","E">>, <<"S","T","O","P">>,
      <<"C","U","E">>, <<"R","E","V">>, <<"S","K","I","P","F","W","D">>,
      <<"S","K","I","P","R","E","V">>, <<"S","H","F","W","D","1">>, <<"S","H","F","W","D","2">>,
      <<"S","H","F","W","D","3">>, <<"S","H","F","W","D","4">>, <<"S","H","F","W","D","5">>,
      <<"S","H","R","E","V","1">>, <<"S","H","R","E","V","2">>, <<"S","H","R","E","V","3">>,
      <<"S","H","R","E","V","4">>, <<"S","H","R","E","V","5">>, <<"J","L","E","F","T">>,
      <<"J","R","I","G","H","T">>, <<"U","P">>, <<"D","O","W","N">>, <<"L","E","F","T">>,
      <<"R","I","G","H","T">>, <<"S","E","L","E","C","T">>, <<"R","E","T","U","R","N">>,
      <<"E","X","I","T">>, <<"M","L","T","N","A","V","I">>, <<"D","S","P","S","E","L">>,
      <<"T","I","T","L","E">>, <<"M","E","N","U">>, <<"P","U","P","M","E","N","U">>,
      <<"S","E","T","U","P">>, <<"D","0">>, <<"D","1">>, <<"D","2">>, <<"D","3">>, <<"D","4">>,
      <<"D","5">>, <<"D","6">>, <<"D","7">>, <<"D","8">>, <<"D","9">>, <<"D","1","2">>,
      <<"S","H","A","R","P">>, <<"C","L","E","A","R">>, <<"R","E","D">>,
      <<"G","R","E","E","N">>, <<"B","L","U","E">>, <<"Y","E","L","L","O","W">>,
      <<"N","E","T","F","L","I","X">>, <<"S","K","Y","P","E">>, <<"V","_","C","A","S","T">>,
      <<"N","E","T","W","O","R","K">>, <<"A","U","D","I","O","S","E","L">>, <<"3","D">>,
      <<"O","S","D","O","N","O","F","F">>, <<"P","_","I","N","_","P">>, <<"P","I","P">>,
      <<"P","I","C","T","M","D">>, <<"2","N","D","A","R","Y">>, <<"C","H","R","O","M","A">>,
      <<"K","E","Y","S">>, <<"D","E","T","A","I","L">>, <<"R","E","S","O","L","U","T","N">>
    }

UHD_COMMANDS ==
    {
      <<"M","N","S","K","I","P">>, <<"M","N","B","A","C","K">>,
      <<"T","I","T","L","E","O","N","O","F","F">>,
      <<"C","L","O","S","E","D","_","C","A","P","T","I","O","N">>,
      <<"H","D","R","_","P","I","C","T","U","R","E","M","O","D","E">>,
      <<"P","I","C","T","U","R","E","S","E","T","T","I","N","G","S">>,
      <<"S","O","U","N","D","E","F","F","E","C","T">>,
      <<"H","I","G","H","C","L","A","R","I","T","Y">>,
      <<"P","L","A","Y","B","A","C","K","I","N","F","O">>, <<"M","I","R","A","C","A","S","T">>,
      <<"S","K","I","P","_","T","H","E","_","T","R","A","I","L","E","R">>
    }

COMMANDS == BD_COMMANDS \cup UHD_COMMANDS

(***************************************************************************)
(* Request bodies                                                          *)
(***************************************************************************)
\* f"cCMD_{token}.x=100&cCMD_{token}.y=100"
FormData(token) ==
    <<"c","C","M","D","_">> \o token \o <<".","x","=","1","0","0","&">>
    \o <<"c","C","M","D","_">> \o token \o <<".","y","=","1","0","0">>

\* "cCMD_GET_STATUS.x=100&cCMD_GET_STATUS.y=100"
GET_STATUS_DATA == FormData(<<"G","E","T","_","S","T","A","T","U","S">>)

\* "cCMD_PST.x=100&cCMD_PST.y=100"
PST_DATA == FormData(<<"P","S","T">>)

\* f"cCMD_RC_{command}.x=100&cCMD_RC_{command}.y=100"
CommandData(command) == FormData(<<"R","C","_">> \o command)

(***************************************************************************)
(* Python values                                                           *)
(***************************************************************************)
\* Optional values: None is the empty sequence, a value x is <<x>>
None == <<>>

Some(x) == <<x>>

\* "not data" for data : list | None
Falsy(data) == data = None \/ data[1] = <<>>

Whitespace == {" ", "\t", "\n", "\r", "\f"}

\* str.strip()
RECURSIVE LStrip(_)
LStrip(s) == IF s # <<>> /\ Head(s) \in Whitespace THEN LStrip(Tail(s)) ELSE s

RECURSIVE RStrip(_)
RStrip(s) ==
    IF s # <<>> /\ s[Len(s)] \in Whitespace THEN RStrip(SubSeq(s, 1, Len(s) - 1)) ELSE s

Strip(s) == RStrip(LStrip(s))

\* str.startswith(prefix)
StartsWith(s, prefix) == Len(s) >= Len(prefix) /\ SubSeq(s, 1, Len(prefix)) = prefix

\* str.split(sep): the list of the pieces between the occurrences of sep
MatchAt(s, sep, i) == SubSeq(s, i, i + Len(sep) - 1) = sep

MatchPlaces(s, sep) == {i \in 1..(Len(s) - Len(sep) + 1) : MatchAt(s, sep, i)}

RECURSIVE Split(_, _)
Split(s, sep) ==
    IF MatchPlaces(s, sep) = {}
    THEN <<s>>
    ELSE LET i == CHOOSE k \in MatchPlaces(s, sep) : \A j \in MatchPlaces(s, sep) : k <= j
         IN  <<SubSeq(s, 1, i - 1)>> \o Split(SubSeq(s, i + Len(sep), Len(s)), sep)

\* int(str): surrounding whitespace, an optional sign, digits with single
\* underscores between them; anything else raises ValueError (ok = FALSE)
Digits == <<"0","1","2","3","4","5","6","7","8","9">>

IsDigit(c) == IsIn(c, Digits)

RECURSIVE DigitsValue(_)
DigitsValue(ds) ==
    IF ds = <<>> THEN 0
    ELSE 10 * DigitsValue(SubSeq(ds, 1, Len(ds) - 1)) + (IndexIn(ds[Len(ds)], Digits) - 1)

ParseInt(s) ==
    LET t == Strip(s)
        signed == t # <<>> /\ Head(t) \in {"+", "-"}
        body == IF signed THEN Tail(t) ELSE t
        wellFormed ==
            /\ body # <<>>
            /\ \A i \in 1..Len(body) :
                 \/ IsDigit(body[i])
                 \/ /\ body[i] = "_"
                    /\ 1 < i /\ i < Len(body)
                    /\ IsDigit(body[i - 1]) /\ IsDigit(body[i + 1])
        magnitude == DigitsValue(SelectSeq(body, IsDigit))
    IN  IF wellFormed
        THEN [ok |-> TRUE, v |-> IF signed /\ Head(t) = "-" THEN 0 - magnitude ELSE magnitude]
        ELSE [ok |-> FALSE, v |-> 0]

(***************************************************************************)
(* _send_request: what one POST returns, from what the device answered     *)
(***************************************************************************)
\* The answer to one POST: the exception session.post or response.read
\* raised ("none" when neither did), the HTTP status, whether the body has
\* the gzip magic and decompresses ("plain", "gzip", "badgzip"), and the
\* decoded text of the body.
Answer(exc, status, gz, text) == [exc |-> exc, status |-> status, gz |-> gz, text |-> text]

HTTP_OK == 200

HTTP_NOT_FOUND == 404

CRLF == <<"\r", "\n">>

Comma == <<",">>

\* The result of _send_request: a (status, data) tuple, or the CannotConnect raised
Returned(status, data) == [raised |-> FALSE, status |-> status, data |-> data]

Raised == [raised |-> TRUE, status |-> "CannotConnect", data |-> None]

\* Variant: a parse that takes every first field but "FE..." as success
ParseReply_FeOnly(text) ==
    LET lines == Split(Strip(text), CRLF)
        first_line == Split(lines[1], Comma)
    IN  IF StartsWith(Strip(first_line[1]), <<"F", "E">>) THEN Returned("error", None)
        ELSE IF Len(lines) > 1 THEN Returned("ok", Some(Split(lines[2], Comma)))
        ELSE Returned("ok", None)

ParseReply(text) ==
    LET lines == Split(Strip(text), CRLF)
        first_line == Split(lines[1], Comma)
    IN  IF StartsWith(Strip(first_line[1]), <<"F", "E">>) THEN Returned("error", None)
        ELSE IF Strip(first_line[1]) # <<"0", "0">> THEN Returned("error", None)
        ELSE IF Len(lines) > 1 THEN Returned("ok", Some(Split(lines[2], Comma)))
        ELSE Returned("ok", None)

\* Variant: a request that does not catch asyncio.TimeoutError
SendRequestResult_TimeoutRaises(a) ==
    IF a.exc = "ClientError" THEN Returned("off", None)
    ELSE IF a.exc = "TimeoutError" THEN Raised
    ELSE IF a.status = HTTP_NOT_FOUND THEN Raised
    ELSE IF a.status # HTTP_OK THEN Raised
    ELSE IF a.gz = "badgzip" THEN Returned("error", None)
    ELSE ParseReply(a.text)

\* Variant: a request that raises on 404 only and reads every other status
\* but 200 as an error of the device
SendRequestResult_Only404Raises(a) ==
    IF a.exc \in {"ClientError", "TimeoutError"} THEN Returned("off", None)
    ELSE IF a.status = HTTP_NOT_FOUND THEN Raised
    ELSE IF a.status # HTTP_OK THEN Returned("error", None)
    ELSE IF a.gz = "badgzip" THEN Returned("error", None)
    ELSE ParseReply(a.text)

SendRequestResult(a) ==
    IF a.exc \in {"ClientError", "TimeoutError"} THEN Returned("off", None)
    ELSE IF a.status = HTTP_NOT_FOUND THEN Raised
    ELSE IF a.status # HTTP_OK THEN Raised
    ELSE IF a.gz = "badgzip" THEN Returned("error", None)
    ELSE ParseReply(a.text)

(***************************************************************************)
(* The public coroutines, as what each does with a _send_request result    *)
(***************************************************************************)
\* What an operation does when a _send_request returns: it finishes with a
\* return value or a raised exception (done), or it sends another request.
Returns(x) == [kind |-> "return", v |-> <<x>>]

Raises(e) == [kind |-> "raise", v |-> <<e>>]

NoRet == [kind |-> "none", v |-> <<>>]

Done(ptype, result) == [player_type |-> ptype, done |-> TRUE, ret |-> result, data |-> <<>>]

Again(ptype, data) == [player_type |-> ptype, done |-> FALSE, ret |-> NoRet, data |-> data]

\* Variant: a test that takes an error answer as the sign of a UHD player
TestConnectionStep_MarksUhd(r, ptype) ==
    IF r.raised THEN Done(ptype, Returns(FALSE))
    ELSE IF r.status = "error" THEN Done(UHD, Returns(FALSE))
    ELSE Done(ptype, Returns(TRUE))

\* Variant: a test that asks again when the device does not answer
TestConnectionStep_RetriesOff(r, ptype) ==
    IF r.raised THEN Done(ptype, Returns(FALSE))
    ELSE IF r.status = "off" THEN Again(ptype, GET_STATUS_DATA)
    ELSE Done(ptype, Returns(r.status # "error"))

\* Variant: a test that takes an unreachable device as a failure
TestConnectionStep_OffFails(r, ptype) ==
    IF r.raised THEN Done(ptype, Returns(FALSE))
    ELSE Done(ptype, Returns(r.status = "ok"))

\* async_test_connection: CannotConnect is caught here
TestConnectionStep(r, ptype) ==
    IF r.raised THEN Done(ptype, Returns(FALSE))
    ELSE Done(ptype, Returns(r.status # "error"))

\* Variant: a detection that forgets the type when neither probe decides
DetectStep_ForgetsWhenUnsure(n, r, ptype) ==
    IF r.raised THEN Done(ptype, Raises(r.status))
    ELSE IF n = 1
    THEN IF r.status = "ok" /\ ~Falsy(r.data)
         THEN Done(BD, Returns(BD))
         ELSE Again(ptype, PST_DATA)
    ELSE IF r.status = "error" THEN Done(UHD, Returns(UHD))
    ELSE IF r.status = "ok" THEN Done(BD, Returns(BD))
    ELSE Done(AUTO, Returns(AUTO))

\* Variant: a detection that takes an error to PST as the sign of a BD player
DetectStep_ErrorMeansBd(n, r, ptype) ==
    IF r.raised THEN Done(ptype, Raises(r.status))
    ELSE IF n = 1
    THEN IF r.status = "ok" /\ ~Falsy(r.data)
         THEN Done(BD, Returns(BD))
         ELSE Again(ptype, PST_DATA)
    ELSE IF r.status = "error" THEN Done(BD, Returns(BD))
    ELSE IF r.status = "ok" THEN Done(UHD, Returns(UHD))
    ELSE Done(ptype, Returns(ptype))

\* Variant: a detection that takes any PST answer but "ok" as the sign of UHD
DetectStep_OffMeansUhd(n, r, ptype) ==
    IF r.raised THEN Done(ptype, Raises(r.status))
    ELSE IF n = 1
    THEN IF r.status = "ok" /\ ~Falsy(r.data)
         THEN Done(BD, Returns(BD))
         ELSE Again(ptype, PST_DATA)
    ELSE IF r.status = "ok" THEN Done(BD, Returns(BD))
    ELSE Done(UHD, Returns(UHD))

\* async_detect_player_type; n is the number of requests answered so far
DetectStep(n, r, ptype) ==
    IF r.raised THEN Done(ptype, Raises(r.status))
    ELSE IF n = 1
    THEN IF r.status = "ok" /\ ~Falsy(r.data)
         THEN Done(BD, Returns(BD))
         ELSE Again(ptype, PST_DATA)
    ELSE IF r.status = "error" THEN Done(UHD, Returns(UHD))
    ELSE IF r.status = "ok" THEN Done(BD, Returns(BD))
    ELSE Done(ptype, Returns(ptype))

\* CommandResult, and f"Unknown command: {command}"
CommandResult(success, error) == [success |-> success, error |-> error]

Message(text, command) == [text |-> text, command |-> command]

UnknownCommandResult(command) ==
    CommandResult(FALSE, Some(Message("Unknown command: ", command)))

\* Variant: a command that sets the player type without testing it for AUTO
SendCommandStep_Overwrites(r, ptype) ==
    IF r.raised THEN Done(ptype, Raises(r.status))
    ELSE IF r.status = "error"
    THEN Done(UHD, Returns(CommandResult(FALSE, Some(Message("Command failed", <<>>)))))
    ELSE IF r.status = "off"
    THEN Done(ptype,
              Returns(CommandResult(FALSE, Some(Message("Device is off or unreachable", <<>>)))))
    ELSE Done(BD, Returns(CommandResult(TRUE, None)))

\* Variant: a command that infers nothing from an error
SendCommandStep_ErrorInfersNothing(r, ptype) ==
    IF r.raised THEN Done(ptype, Raises(r.status))
    ELSE IF r.status = "error"
    THEN Done(ptype, Returns(CommandResult(FALSE, Some(Message("Command failed", <<>>)))))
    ELSE IF r.status = "off"
    THEN Done(ptype,
              Returns(CommandResult(FALSE, Some(Message("Device is off or unreachable", <<>>)))))
    ELSE Done(IF ptype = AUTO THEN BD ELSE ptype, Returns(CommandResult(TRUE, None)))

\* async_send_command after its request
SendCommandStep(r, ptype) ==
    IF r.raised THEN Done(ptype, Raises(r.status))
    ELSE IF r.status = "error"
    THEN Done(IF ptype = AUTO THEN UHD ELSE ptype,
              Returns(CommandResult(FALSE, Some(Message("Command failed", <<>>)))))
    ELSE IF r.status = "off"
    THEN Done(ptype,
              Returns(CommandResult(FALSE, Some(Message("Device is off or unreachable", <<>>)))))
    ELSE Done(IF ptype = AUTO THEN BD ELSE ptype, Returns(CommandResult(TRUE, None)))

\* PlayStatus
PlayStatus(state, status_string, position, duration, chapter_current, chapter_total) ==
    [state |-> state, status_string |-> status_string, position |-> position,
     duration |-> duration, chapter_current |-> chapter_current,
     chapter_total |-> chapter_total]

\* "int(data[i]) if len(data) > i else 0", i counted from 0
IntAt(data, i) == IF Len(data) > i THEN ParseInt(data[i + 1]) ELSE [ok |-> TRUE, v |-> 0]

\* Variant: a PST line of which each field is read by itself, the state
\* being unknown when it does not parse
ParsePst_FieldByField(data) ==
    LET s == IntAt(data, 0)
        p == IntAt(data, 1)
    IN  [pst_state |-> IF s.ok THEN s.v ELSE 0 - 1,
         position |-> IF p.ok /\ p.v >= 0 THEN p.v ELSE 0]

\* Variant: a PST line that falls back to no known state
ParsePst_FallbackUnknown(data) ==
    LET s == IntAt(data, 0)
        p == IntAt(data, 1)
    IN  IF s.ok /\ p.ok
        THEN [pst_state |-> s.v, position |-> IF p.v < 0 THEN 0 ELSE p.v]
        ELSE [pst_state |-> 0 - 1, position |-> 0]

\* Variant: a PST line whose negative position is kept
ParsePst_NoClamp(data) ==
    LET s == IntAt(data, 0)
        p == IntAt(data, 1)
    IN  IF s.ok /\ p.ok
        THEN [pst_state |-> s.v, position |-> p.v]
        ELSE [pst_state |-> 0, position |-> 0]

\* The PST line: state and playing time; both 0 when either does not parse;
\* a negative position (no disc) becomes 0
ParsePst(data) ==
    LET s == IntAt(data, 0)
        p == IntAt(data, 1)
    IN  IF s.ok /\ p.ok
        THEN [pst_state |-> s.v, position |-> IF p.v < 0 THEN 0 ELSE p.v]
        ELSE [pst_state |-> 0, position |-> 0]

\* Variant: a GET_STATUS line whose duration is read from the playing time
ParseExt_DurationFromPlayingTime(ext_data) ==
    LET e0 == IntAt(ext_data, 0)
        e3 == IntAt(ext_data, 3)
        e5 == IntAt(ext_data, 5)
        e6 == IntAt(ext_data, 6)
        has5 == Len(ext_data) > 5
        has6 == Len(ext_data) > 6
        Parsed(completed, ext_state, duration, chapter_current, chapter_total) ==
            [completed |-> completed, ext_state |-> ext_state, duration |-> duration,
             chapter_current |-> chapter_current, chapter_total |-> chapter_total]
    IN  IF ~e0.ok THEN Parsed(FALSE, 0, 0, None, None)
        ELSE IF ~e3.ok THEN Parsed(FALSE, e0.v, 0, None, None)
        ELSE IF has5 /\ ~e5.ok THEN Parsed(FALSE, e0.v, e3.v, None, None)
        ELSE IF has6 /\ ~e6.ok THEN Parsed(FALSE, e0.v, e3.v, Some(e5.v), None)
        ELSE Parsed(TRUE, e0.v, e3.v,
                    IF has5 THEN Some(e5.v) ELSE None,
                    IF has6 THEN Some(e6.v) ELSE None)

\* Variant: a GET_STATUS line of which nothing is kept when a field does not parse
ParseExt_AllOrNothing(ext_data) ==
    LET e0 == IntAt(ext_data, 0)
        e4 == IntAt(ext_data, 4)
        e5 == IntAt(ext_data, 5)
        e6 == IntAt(ext_data, 6)
        has5 == Len(ext_data) > 5
        has6 == Len(ext_data) > 6
        Parsed(completed, ext_state, duration, chapter_current, chapter_total) ==
            [completed |-> completed, ext_state |-> ext_state, duration |-> duration,
             chapter_current |-> chapter_current, chapter_total |-> chapter_total]
    IN  IF ~e0.ok \/ ~e4.ok \/ (has5 /\ ~e5.ok) \/ (has6 /\ ~e6.ok)
        THEN Parsed(FALSE, 0, 0, None, None)
        ELSE Parsed(TRUE, e0.v, e4.v,
                    IF has5 THEN Some(e5.v) ELSE None,
                    IF has6 THEN Some(e6.v) ELSE None)

\* The GET_STATUS line, read field by field until one does not parse
\* (completed = FALSE): what was assigned before is kept
ParseExt(ext_data) ==
    LET e0 == IntAt(ext_data, 0)
        e4 == IntAt(ext_data, 4)
        e5 == IntAt(ext_data, 5)
        e6 == IntAt(ext_data, 6)
        has5 == Len(ext_data) > 5
        has6 == Len(ext_data) > 6
        Parsed(completed, ext_state, duration, chapter_current, chapter_total) ==
            [completed |-> completed, ext_state |-> ext_state, duration |-> duration,
             chapter_current |-> chapter_current, chapter_total |-> chapter_total]
    IN  IF ~e0.ok THEN Parsed(FALSE, 0, 0, None, None)
        ELSE IF ~e4.ok THEN Parsed(FALSE, e0.v, 0, None, None)
        ELSE IF has5 /\ ~e5.ok THEN Parsed(FALSE, e0.v, e4.v, None, None)
        ELSE IF has6 /\ ~e6.ok THEN Parsed(FALSE, e0.v, e4.v, Some(e5.v), None)
        ELSE Parsed(TRUE, e0.v, e4.v,
                    IF has5 THEN Some(e5.v) ELSE None,
                    IF has6 THEN Some(e6.v) ELSE None)

\* Variant: a map that takes every state but playing and paused as stopped
MapPstState_OtherIsStopped(pst_state, position, duration, chapter_current, chapter_total) ==
    IF pst_state = 1
    THEN PlayStatus("playing", PLAYBACK, position, duration, chapter_current, chapter_total)
    ELSE IF pst_state = 2
    THEN PlayStatus("paused", PAUSE_PLAYBACK, position, duration, chapter_current, chapter_total)
    ELSE PlayStatus("stopped", STOPPED, position, duration, chapter_current, chapter_total)

\* Map PST state to our state
MapPstState(pst_state, position, duration, chapter_current, chapter_total) ==
    IF pst_state = 0
    THEN PlayStatus("stopped", STOPPED, position, duration, chapter_current, chapter_total)
    ELSE IF pst_state = 1
    THEN PlayStatus("playing", PLAYBACK, position, duration, chapter_current, chapter_total)
    ELSE IF pst_state = 2
    THEN PlayStatus("paused", PAUSE_PLAYBACK, position, duration, chapter_current, chapter_total)
    ELSE PlayStatus("unknown", UNKNOWN, position, duration, chapter_current, chapter_total)

\* Variant: a merge without the standby case
MergeExtended_NoStandby(pst, ext) ==
    IF ext.status = "ok" /\ ~Falsy(ext.data)
    THEN LET x == ParseExt(ext.data[1])
         IN  MapPstState(pst.pst_state, pst.position, x.duration,
                         x.chapter_current, x.chapter_total)
    ELSE MapPstState(pst.pst_state, pst.position, 0, None, None)

\* Variant: a merge that gives up when the extended request brought nothing
MergeExtended_ExtErrorUnknown(pst, ext) ==
    IF ext.status = "ok" /\ ~Falsy(ext.data)
    THEN LET x == ParseExt(ext.data[1])
         IN  IF x.completed /\ x.ext_state = 0 /\ pst.pst_state = 0
             THEN PlayStatus("standby", POWER_OFF, pst.position, x.duration,
                             x.chapter_current, x.chapter_total)
             ELSE MapPstState(pst.pst_state, pst.position, x.duration,
                              x.chapter_current, x.chapter_total)
    ELSE PlayStatus("unknown", UNKNOWN, 0, 0, None, None)

\* The status built once the extended request has returned ext
MergeExtended(pst, ext) ==
    IF ext.status = "ok" /\ ~Falsy(ext.data)
    THEN LET x == ParseExt(ext.data[1])
         IN  IF x.completed /\ x.ext_state = 0 /\ pst.pst_state = 0
             THEN PlayStatus("standby", POWER_OFF, pst.position, x.duration,
                             x.chapter_current, x.chapter_total)
             ELSE MapPstState(pst.pst_state, pst.position, x.duration,
                              x.chapter_current, x.chapter_total)
    ELSE MapPstState(pst.pst_state, pst.position, 0, None, None)

\* Variant: a status that goes on to the extended request when PST is "off"
GetPlayStatusStep_OffGoesOn(results, ptype) ==
    LET r == results[Len(results)]
    IN  IF r.raised THEN Done(ptype, Raises(r.status))
        ELSE IF Len(results) = 1
        THEN IF r.status = "off" /\ ptype = UHD
             THEN Done(ptype, Returns(PlayStatus("off", POWER_OFF, 0, 0, None, None)))
             ELSE IF r.status = "off"
             THEN Again(ptype, GET_STATUS_DATA)
             ELSE IF r.status = "error" \/ Falsy(r.data)
             THEN Done(ptype, Returns(PlayStatus("unknown", UNKNOWN, 0, 0, None, None)))
             ELSE IF ptype # UHD
             THEN Again(ptype, GET_STATUS_DATA)
             ELSE LET pst == ParsePst(r.data[1])
                  IN  Done(ptype, Returns(MapPstState(pst.pst_state, pst.position, 0, None, None)))
        ELSE IF results[1].status = "off"
        THEN Done(ptype, Returns(PlayStatus("off", POWER_OFF, 0, 0, None, None)))
        ELSE Done(ptype, Returns(MergeExtended(ParsePst(results[1].data[1]), r)))

\* Variant: a status that takes extended fields as the sign of a BD player
GetPlayStatusStep_LearnsBd(results, ptype) ==
    LET r == results[Len(results)]
    IN  IF r.raised THEN Done(ptype, Raises(r.status))
        ELSE IF Len(results) = 1
        THEN IF r.status = "off"
             THEN Done(ptype, Returns(PlayStatus("off", POWER_OFF, 0, 0, None, None)))
             ELSE IF r.status = "error" \/ Falsy(r.data)
             THEN Done(ptype, Returns(PlayStatus("unknown", UNKNOWN, 0, 0, None, None)))
             ELSE IF ptype # UHD
             THEN Again(ptype, GET_STATUS_DATA)
             ELSE LET pst == ParsePst(r.data[1])
                  IN  Done(ptype, Returns(MapPstState(pst.pst_state, pst.position, 0, None, None)))
        ELSE Done(IF r.status = "ok" /\ ~Falsy(r.data) THEN BD ELSE ptype,
                  Returns(MergeExtended(ParsePst(results[1].data[1]), r)))

\* Variant: a status that reads "ok" without fields as a stopped player
GetPlayStatusStep_NoFieldsStopped(results, ptype) ==
    LET r == results[Len(results)]
    IN  IF r.raised THEN Done(ptype, Raises(r.status))
        ELSE IF Len(results) = 1
        THEN IF r.status = "off"
             THEN Done(ptype, Returns(PlayStatus("off", POWER_OFF, 0, 0, None, None)))
             ELSE IF r.status = "error"
             THEN Done(ptype, Returns(PlayStatus("unknown", UNKNOWN, 0, 0, None, None)))
             ELSE IF Falsy(r.data)
             THEN Done(ptype, Returns(MapPstState(0, 0, 0, None, None)))
             ELSE IF ptype # UHD
             THEN Again(ptype, GET_STATUS_DATA)
             ELSE LET pst == ParsePst(r.data[1])
                  IN  Done(ptype, Returns(MapPstState(pst.pst_state, pst.position, 0, None, None)))
        ELSE Done(ptype, Returns(MergeExtended(ParsePst(results[1].data[1]), r)))

\* Variant: a status that asks for the extended status of BD players only
GetPlayStatusStep_ExtOnlyForBd(results, ptype) ==
    LET r == results[Len(results)]
    IN  IF r.raised THEN Done(ptype, Raises(r.status))
        ELSE IF Len(results) = 1
        THEN IF r.status = "off"
             THEN Done(ptype, Returns(PlayStatus("off", POWER_OFF, 0, 0, None, None)))
             ELSE IF r.status = "error" \/ Falsy(r.data)
             THEN Done(ptype, Returns(PlayStatus("unknown", UNKNOWN, 0, 0, None, None)))
             ELSE IF ptype = BD
             THEN Again(ptype, GET_STATUS_DATA)
             ELSE LET pst == ParsePst(r.data[1])
                  IN  Done(ptype, Returns(MapPstState(pst.pst_state, pst.position, 0, None, None)))
        ELSE Done(ptype, Returns(MergeExtended(ParsePst(results[1].data[1]), r)))

\* Variant: a status that asks for the extended status whatever the player type
GetPlayStatusStep_ExtAlways(results, ptype) ==
    LET r == results[Len(results)]
    IN  IF r.raised THEN Done(ptype, Raises(r.status))
        ELSE IF Len(results) = 1
        THEN IF r.status = "off"
             THEN Done(ptype, Returns(PlayStatus("off", POWER_OFF, 0, 0, None, None)))
             ELSE IF r.status = "error" \/ Falsy(r.data)
             THEN Done(ptype, Returns(PlayStatus("unknown", UNKNOWN, 0, 0, None, None)))
             ELSE Again(ptype, GET_STATUS_DATA)
        ELSE Done(ptype, Returns(MergeExtended(ParsePst(results[1].data[1]), r)))

\* Variant: a status whose int() calls are outside any try
GetPlayStatusStep_Unguarded(results, ptype) ==
    LET r == results[Len(results)]
        pstOk == IntAt(results[1].data[1], 0).ok /\ IntAt(results[1].data[1], 1).ok
    IN  IF r.raised THEN Done(ptype, Raises(r.status))
        ELSE IF Len(results) = 1
        THEN IF r.status = "off"
             THEN Done(ptype, Returns(PlayStatus("off", POWER_OFF, 0, 0, None, None)))
             ELSE IF r.status = "error" \/ Falsy(r.data)
             THEN Done(ptype, Returns(PlayStatus("unknown", UNKNOWN, 0, 0, None, None)))
             ELSE IF ~pstOk
             THEN Done(ptype, Raises("ValueError"))
             ELSE IF ptype # UHD
             THEN Again(ptype, GET_STATUS_DATA)
             ELSE LET pst == ParsePst(r.data[1])
                  IN  Done(ptype, Returns(MapPstState(pst.pst_state, pst.position, 0, None, None)))
        ELSE IF r.status = "ok" /\ ~Falsy(r.data) /\ ~ParseExt(r.data[1]).completed
        THEN Done(ptype, Raises("ValueError"))
        ELSE Done(ptype, Returns(MergeExtended(ParsePst(results[1].data[1]), r)))

\* async_get_play_status; results are the _send_request results so far
GetPlayStatusStep(results, ptype) ==
    LET r == results[Len(results)]
    IN  IF r.raised THEN Done(ptype, Raises(r.status))
        ELSE IF Len(results) = 1
        THEN IF r.status = "off"
             THEN Done(ptype, Returns(PlayStatus("off", POWER_OFF, 0, 0, None, None)))
             ELSE IF r.status = "error" \/ Falsy(r.data)
             THEN Done(ptype, Returns(PlayStatus("unknown", UNKNOWN, 0, 0, None, None)))
             ELSE IF ptype # UHD
             THEN Again(ptype, GET_STATUS_DATA)
             ELSE LET pst == ParsePst(r.data[1])
                  IN  Done(ptype, Returns(MapPstState(pst.pst_state, pst.position, 0, None, None)))
        ELSE Done(ptype, Returns(MergeExtended(ParsePst(results[1].data[1]), r)))

(***************************************************************************)
(* The client object, its callers and the device                           *)
(***************************************************************************)
\* The asyncio tasks that share one client: the coordinator's poll and a
\* service call made by the user
Tasks == {"poll", "user"}

\* close() is called at most MaxCloses times
MaxCloses == 1

VARIABLES
    player_type,    \* self._player_type
    session,        \* self._session: NoSession (None) or the number of a session
    nsessions,      \* the ClientSessions created so far, numbered 1..nsessions
    closed,         \* the sessions whose .closed is True
    locked,         \* self._lock._locked
    waiters,        \* self._lock._waiters, in arrival order
    ncloses,        \* the calls of close() so far
    pc,             \* where each task is: "idle", "wait" (for the lock),
                    \* "flight" (its POST is out), "closing" (in session.close())
    op,             \* the coroutine each task is in, or was in last
    arg,            \* the command name it was called with
    pending,        \* the data argument of its current _send_request
    posted,         \* the session its POST in flight was made on
    reqs,           \* the data of the POSTs it made in this call, in order
    outs,           \* what _send_request returned to it in this call, in order
    ret,            \* what the call returned or raised
    reply,          \* what came back on its last POST in this call (an Answer)
    consecutive_errors, \* the coordinator's self._consecutive_errors
    coordinator_data, \* the coordinator's self.data: None or the last snapshot
    update,         \* what the last _async_update_data returned or raised
    polls,          \* how each _async_update_data so far ended, in order
    svc             \* the entity service call or validate_input under way

\* The state of the coordinator, the entities and the config flow
adapter == <<consecutive_errors, coordinator_data, update, polls, svc>>

vars ==
    <<player_type, session, nsessions, closed, locked, waiters, ncloses,
      pc, op, arg, pending, posted, reqs, outs, ret, reply,
      consecutive_errors, coordinator_data, update, polls, svc>>

\* No service call has been made
NoService ==
    [name |-> "none", commands |-> <<>>, num_repeats |-> 0, round |-> 0,
     idx |-> 0, at |-> "none", sent |-> <<>>, got |-> <<>>, skipped |-> 0,
     refreshes |-> 0, result |-> NoRet]

\* PanasonicBlurayCoordinator.__init__: no error counted, no data yet
InitCoordinator ==
    /\ consecutive_errors = 0
    /\ coordinator_data = None
    /\ update = NoRet
    /\ polls = <<>>
    /\ svc = NoService

NoSession == 0

\* No POST of this call has been answered yet
NoReply == Answer("none", 0, "none", <<>>)

Init ==
    /\ player_type = AUTO
    /\ session = NoSession
    /\ nsessions = 0
    /\ closed = {}
    /\ locked = FALSE
    /\ waiters = <<>>
    /\ ncloses = 0
    /\ pc = [t \in Tasks |-> "idle"]
    /\ op = [t \in Tasks |-> "none"]
    /\ arg = [t \in Tasks |-> <<>>]
    /\ pending = [t \in Tasks |-> <<>>]
    /\ posted = [t \in Tasks |-> NoSession]
    /\ reqs = [t \in Tasks |-> <<>>]
    /\ outs = [t \in Tasks |-> <<>>]
    /\ ret = [t \in Tasks |-> NoRet]
    /\ reply = [t \in Tasks |-> NoReply]
    /\ InitCoordinator

\* Variant: a new session only when there is none
NeedSession_OnlyWhenNone == session = NoSession

\* _get_session: a new session when there is none or it is closed
NeedSession == session = NoSession \/ session \in closed

\* Inside "async with self._lock": _get_session, then session.post
Post(t, data, sent) ==
    /\ locked' = TRUE
    /\ nsessions' = IF NeedSession THEN nsessions + 1 ELSE nsessions
    /\ session' = IF NeedSession THEN nsessions + 1 ELSE session
    /\ posted' = [posted EXCEPT ![t] = session']
    /\ reqs' = [reqs EXCEPT ![t] = Append(sent, data)]
    /\ pc' = [pc EXCEPT ![t] = "flight"]

\* Variant: no lock around the request
CanAcquire_NoLock(isLocked) == waiters = <<>>

\* Variant: a lock that lets a newcomer pass those who wait
CanAcquire_Barges(isLocked) == ~isLocked

\* asyncio.Lock.acquire returns at once only if the lock is free and nobody waits
CanAcquire(isLocked) == ~isLocked /\ waiters = <<>>

\* The call of _send_request(data) by t, up to its first suspension; isLocked
\* is the lock at that moment and sent the POSTs t made before in this call
SendRequest(t, data, isLocked, sent) ==
    /\ pending' = [pending EXCEPT ![t] = data]
    /\ IF CanAcquire(isLocked)
       THEN /\ Post(t, data, sent)
            /\ UNCHANGED waiters
       ELSE /\ waiters' = Append(waiters, t)
            /\ pc' = [pc EXCEPT ![t] = "wait"]
            /\ locked' = isLocked
            /\ reqs' = [reqs EXCEPT ![t] = sent]
            /\ UNCHANGED <<session, nsessions, posted>>

\* The end of a call
Finish(t, result) ==
    /\ pc' = [pc EXCEPT ![t] = "idle"]
    /\ ret' = [ret EXCEPT ![t] = result]
    /\ pending' = [pending EXCEPT ![t] = <<>>]
    /\ posted' = [posted EXCEPT ![t] = NoSession]

\* The start of a call that begins with a request
Call(t, name, command, data) ==
    /\ pc[t] = "idle"
    /\ op' = [op EXCEPT ![t] = name]
    /\ arg' = [arg EXCEPT ![t] = command]
    /\ outs' = [outs EXCEPT ![t] = <<>>]
    /\ ret' = [ret EXCEPT ![t] = NoRet]
    /\ reply' = [reply EXCEPT ![t] = NoReply]
    /\ SendRequest(t, data, locked, <<>>)
    /\ UNCHANGED <<player_type, closed, ncloses>>

CallTestConnection(t) == Call(t, "test_connection", <<>>, GET_STATUS_DATA)

CallDetectPlayerType(t) == Call(t, "detect_player_type", <<>>, GET_STATUS_DATA)

CallGetPlayStatus(t) == Call(t, "get_play_status", <<>>, PST_DATA)

\* Variant: a send_command that does not look the command up
CallSendCommand_Unchecked(t, command) ==
    Call(t, "send_command", command, CommandData(Upper(command)))

\* Variant: a send_command that looks up the upper-case form of the command
\* and posts the command as it was given
CallSendCommand_AsGiven(t, command) ==
    IF Upper(command) \in COMMANDS
    THEN Call(t, "send_command", command, CommandData(command))
    ELSE /\ pc[t] = "idle"
         /\ op' = [op EXCEPT ![t] = "send_command"]
         /\ arg' = [arg EXCEPT ![t] = command]
         /\ outs' = [outs EXCEPT ![t] = <<>>]
         /\ reqs' = [reqs EXCEPT ![t] = <<>>]
         /\ reply' = [reply EXCEPT ![t] = NoReply]
         /\ Finish(t, Returns(UnknownCommandResult(Upper(command))))
         /\ UNCHANGED <<player_type, session, nsessions, closed, locked, waiters, ncloses>>

\* async_send_command(command): an unknown command returns without a request
CallSendCommand(t, command) ==
    IF Upper(command) \in COMMANDS
    THEN Call(t, "send_command", command, CommandData(Upper(command)))
    ELSE /\ pc[t] = "idle"
         /\ op' = [op EXCEPT ![t] = "send_command"]
         /\ arg' = [arg EXCEPT ![t] = command]
         /\ outs' = [outs EXCEPT ![t] = <<>>]
         /\ reqs' = [reqs EXCEPT ![t] = <<>>]
         /\ reply' = [reply EXCEPT ![t] = NoReply]
         /\ Finish(t, Returns(UnknownCommandResult(Upper(command))))
         /\ UNCHANGED <<player_type, session, nsessions, closed, locked, waiters, ncloses>>

\* The lock is free and t is the first waiter: t acquires it and posts
Admit(t) ==
    /\ pc[t] = "wait"
    /\ ~locked
    /\ waiters # <<>>
    /\ Head(waiters) = t
    /\ waiters' = Tail(waiters)
    /\ Post(t, pending[t], reqs[t])
    /\ UNCHANGED <<player_type, closed, ncloses, op, arg, pending, outs, ret, reply>>

\* What the coroutine t is in does with the results so far
OpStep(t, results, ptype) ==
    LET r == results[Len(results)]
    IN  IF op[t] = "test_connection" THEN TestConnectionStep(r, ptype)
        ELSE IF op[t] = "detect_player_type" THEN DetectStep(Len(results), r, ptype)
        ELSE IF op[t] = "send_command" THEN SendCommandStep(r, ptype)
        ELSE GetPlayStatusStep(results, ptype)

\* Variant: a _send_request that keeps the lock when it raises
Respond_KeepsLockOnRaise(t, a) ==
    /\ pc[t] = "flight"
    /\ LET results == Append(outs[t], SendRequestResult(a))
           s == OpStep(t, results, player_type)
       IN  /\ outs' = [outs EXCEPT ![t] = results]
           /\ reply' = [reply EXCEPT ![t] = a]
           /\ player_type' = s.player_type
           /\ IF s.done
              THEN /\ Finish(t, s.ret)
                   /\ locked' = (s.ret.kind = "raise")
                   /\ UNCHANGED <<session, nsessions, waiters, reqs>>
              ELSE /\ SendRequest(t, s.data, FALSE, reqs[t])
                   /\ UNCHANGED ret
    /\ UNCHANGED <<closed, ncloses, op, arg>>

\* The device answers t's POST with a (or the POST fails with a.exc):
\* _send_request returns and releases the lock, and t runs on to the end of
\* its call or to its next _send_request
Respond(t, a) ==
    /\ pc[t] = "flight"
    /\ LET results == Append(outs[t], SendRequestResult(a))
           s == OpStep(t, results, player_type)
       IN  /\ outs' = [outs EXCEPT ![t] = results]
           /\ reply' = [reply EXCEPT ![t] = a]
           /\ player_type' = s.player_type
           /\ IF s.done
              THEN /\ Finish(t, s.ret)
                   /\ locked' = FALSE
                   /\ UNCHANGED <<session, nsessions, waiters, reqs>>
              ELSE /\ SendRequest(t, s.data, FALSE, reqs[t])
                   /\ UNCHANGED ret
    /\ UNCHANGED <<closed, ncloses, op, arg>>

\* Variant: a close() that closes the session and keeps the reference
CloseNow_KeepsReference(t) ==
    /\ pc[t] = "idle"
    /\ ncloses < MaxCloses
    /\ session # NoSession /\ session \notin closed
    /\ ncloses' = ncloses + 1
    /\ closed' = closed \cup {session}
    /\ session' = session
    /\ op' = [op EXCEPT ![t] = "close"]
    /\ arg' = [arg EXCEPT ![t] = <<>>]
    /\ outs' = [outs EXCEPT ![t] = <<>>]
    /\ reqs' = [reqs EXCEPT ![t] = <<>>]
    /\ reply' = [reply EXCEPT ![t] = NoReply]
    /\ Finish(t, Returns(None))
    /\ UNCHANGED <<player_type, nsessions, locked, waiters>>

\* close() with an open session: session.close() completes without
\* suspending, and the reference is cleared
CloseNow(t) ==
    /\ pc[t] = "idle"
    /\ ncloses < MaxCloses
    /\ session # NoSession /\ session \notin closed
    /\ ncloses' = ncloses + 1
    /\ closed' = closed \cup {session}
    /\ session' = NoSession
    /\ op' = [op EXCEPT ![t] = "close"]
    /\ arg' = [arg EXCEPT ![t] = <<>>]
    /\ outs' = [outs EXCEPT ![t] = <<>>]
    /\ reqs' = [reqs EXCEPT ![t] = <<>>]
    /\ reply' = [reply EXCEPT ![t] = NoReply]
    /\ Finish(t, Returns(None))
    /\ UNCHANGED <<player_type, nsessions, locked, waiters>>

\* close() with an open session: session.close() suspends t
CloseSuspend(t) ==
    /\ pc[t] = "idle"
    /\ ncloses < MaxCloses
    /\ session # NoSession /\ session \notin closed
    /\ ncloses' = ncloses + 1
    /\ closed' = closed \cup {session}
    /\ op' = [op EXCEPT ![t] = "close"]
    /\ arg' = [arg EXCEPT ![t] = <<>>]
    /\ outs' = [outs EXCEPT ![t] = <<>>]
    /\ reqs' = [reqs EXCEPT ![t] = <<>>]
    /\ reply' = [reply EXCEPT ![t] = NoReply]
    /\ ret' = [ret EXCEPT ![t] = NoRet]
    /\ pc' = [pc EXCEPT ![t] = "closing"]
    /\ UNCHANGED <<player_type, session, nsessions, locked, waiters, pending, posted>>

\* session.close() is over: self._session = None
CloseResume(t) ==
    /\ pc[t] = "closing"
    /\ session' = NoSession
    /\ Finish(t, Returns(None))
    /\ UNCHANGED <<player_type, nsessions, closed, locked, waiters, ncloses,
                   op, arg, reqs, outs, reply>>

\* close() with no session, or a closed one: nothing happens
CloseNothing(t) ==
    /\ pc[t] = "idle"
    /\ ncloses < MaxCloses
    /\ session = NoSession \/ session \in closed
    /\ ncloses' = ncloses + 1
    /\ op' = [op EXCEPT ![t] = "close"]
    /\ arg' = [arg EXCEPT ![t] = <<>>]
    /\ outs' = [outs EXCEPT ![t] = <<>>]
    /\ reqs' = [reqs EXCEPT ![t] = <<>>]
    /\ reply' = [reply EXCEPT ![t] = NoReply]
    /\ Finish(t, Returns(None))
    /\ UNCHANGED <<player_type, session, nsessions, closed, locked, waiters>>

(***************************************************************************)
(* The environment: the device's answers and the callers' command names    *)
(***************************************************************************)
\* First lines of a reply: '00,"",1' and 'FE,"Error",0'
OkLine == <<"0","0",",","\"","\"",",","1">>

ErrorLine == <<"F","E",",","\"","E","r","r","o","r","\"",",","0">>

\* The reply texts the device may send to a request, given the second lines
\* it may send to PST and to GET_STATUS; a command is answered by one line
Texts(data, pstLines, extLines) ==
    {OkLine, ErrorLine}
    \cup {OkLine \o CRLF \o line :
            line \in IF data = PST_DATA THEN pstLines
                     ELSE IF data = GET_STATUS_DATA THEN extLines
                     ELSE {}}

\* What may happen to a POST: the transport fails, the device answers with
\* another status than 200, the body is a broken gzip stream, or the body
\* decodes to one of texts
Answers(texts) ==
    {Answer(e, 0, "plain", <<>>) : e \in {"ClientError", "TimeoutError"}}
    \cup {Answer("none", st, "plain", <<>>) : st \in {HTTP_NOT_FOUND, 500}}
    \cup {Answer("none", HTTP_OK, "badgzip", <<>>)}
    \cup {Answer("none", HTTP_OK, gz, text) : gz \in {"plain", "gzip"}, text \in texts}

\* One answer for each way a POST can end: the transport fails, the device
\* answers 404, or it answers 200 with one of texts uncompressed. Concurrent
\* callers get these; the other forms of each are tried on a single caller.
Outcomes(texts) ==
    {Answer("ClientError", 0, "plain", <<>>), Answer("none", HTTP_NOT_FOUND, "plain", <<>>)}
    \cup {Answer("none", HTTP_OK, "plain", text) : text \in texts}

\* With concurrent callers the device is stopped with no disc playing:
\* PST answers "0,0" and GET_STATUS answers "0,0,0,0,0,0,0"
StoppedPst == {<<"0",",","0">>}

StoppedExt == {<<"0",",","0",",","0",",","0",",","0",",","0",",","0">>}

\* The names send_command is called with by concurrent callers: a command
\* in lower case and a name that is no command
CommandNames == {<<"u","p">>, <<"N","O","P","E">>}

(***************************************************************************)
(* The specification                                                       *)
(***************************************************************************)
Next ==
    \E t \in Tasks :
        \/ CallTestConnection(t) /\ UNCHANGED adapter
        \/ CallDetectPlayerType(t) /\ UNCHANGED adapter
        \/ CallGetPlayStatus(t) /\ UNCHANGED adapter
        \/ \E command \in CommandNames : CallSendCommand(t, command) /\ UNCHANGED adapter
        \/ Admit(t) /\ UNCHANGED adapter
        \/ \E a \in Outcomes(Texts(pending[t], StoppedPst, StoppedExt)) : Respond(t, a) /\ UNCHANGED adapter
        \/ CloseNow(t) /\ UNCHANGED adapter
        \/ CloseSuspend(t) /\ UNCHANGED adapter
        \/ CloseResume(t) /\ UNCHANGED adapter
        \/ CloseNothing(t) /\ UNCHANGED adapter

Spec == Init /\ [][Next]_vars

(***************************************************************************)
(* send_command alone, over the whole vocabulary                           *)
(***************************************************************************)
\* All spellings are tried of the tokens of at most MaxSpelledLen characters
MaxSpelledLen == 3

\* Every spelling of a token in upper and lower case
RECURSIVE SpellingsOf(_)
SpellingsOf(token) ==
    IF token = <<>> THEN {<<>>}
    ELSE {<<c>> \o rest : c \in {Head(token), LowerChar(Head(token))},
                          rest \in SpellingsOf(Tail(token))}

\* A token with every other character in lower case
Mixed(token) == [i \in 1..Len(token) |-> IF i % 2 = 1 THEN LowerChar(token[i]) ELSE token[i]]

\* Names that are no command: the test suite's, the empty name, a command
\* with a blank after it, a command with its prefix
NoCommands ==
    { <<"N","O","T","_","A","_","R","E","A","L","_","C","O","M","M","A","N","D">>,
      <<"I","N","V","A","L","I","D","_","C","M","D">>,
      <<>>,
      <<"u","p"," ">>,
      <<"R","C","_","U","P">> }

AllCommandNames ==
    COMMANDS
    \cup {Lower(token) : token \in COMMANDS}
    \cup {Mixed(token) : token \in COMMANDS}
    \cup UNION {SpellingsOf(token) : token \in {c \in COMMANDS : Len(c) <= MaxSpelledLen}}
    \cup NoCommands

NextCommand ==
    \/ \E command \in AllCommandNames : CallSendCommand("user", command) /\ UNCHANGED adapter
    \/ \E a \in Answers(Texts(pending["user"], {}, {})) : Respond("user", a) /\ UNCHANGED adapter

SpecCommand == Init /\ [][NextCommand]_vars

(***************************************************************************)
(* get_play_status alone, over many reply lines and from every player type *)
(***************************************************************************)
\* Second lines of a reply to PST
PstLines ==
    { <<"0",",","0">>,                      \* 0,0     stopped
      <<"1",",","1","2","0">>,              \* 1,120   playing
      <<"2",",","6","0">>,                  \* 2,60    paused
      <<"9","9",",","0">>,                  \* 99,0    no known state
      <<"0",",","-","2">>,                  \* 0,-2    no disc
      <<"x",",","y">>,                      \* x,y     no numbers
      <<"1",",","x">>,                      \* 1,x     no position
      <<"0">>,                              \* 0       one field
      <<",">>,                              \* ,       two empty fields
      <<" ","1"," ",","," ","5"," ">>,      \* " 1 , 5 "
      <<"-","1",",","5">>,                  \* -1,5    a negative state
      <<"3",",","7">>,                      \* 3,7     the state after paused
      <<"x",",","5">>,                      \* x,5     no state
      <<"2",",","-","5",",","0",",","0">> } \* 2,-5,0,0

\* Second lines of a reply to GET_STATUS
ExtLines ==
    { <<"0",",","0",",","0",",","0",",","0",",","0",",","0">>,      \* 0,0,0,0,0,0,0
      <<"1",",","0",",","0",",","1","2","0",",","7","2","0","0",",","3",",","2","0">>,
                                                                    \* 1,0,0,120,7200,3,20
      <<"2",",","0",",","0",",","0",",","0",",","0",",","0">>,      \* 2,0,0,0,0,0,0
      <<"0",",","0",",","0",",","0",",","7","2","0","0">>,          \* 0,0,0,0,7200
      <<"0",",","0",",","0",",","0",",","7","2","0","0",",","3">>,  \* 0,0,0,0,7200,3
      <<"0">>,                                                      \* 0
      <<"x">>,                                                      \* x
      <<"0",",","0",",","0",",","0",",","x",",","3",",","2","0">>,  \* 0,0,0,0,x,3,20
      <<"0",",","0",",","0",",","0",",","1","0",",","x",",","2","0">>,
                                                                    \* 0,0,0,0,10,x,20
      <<"0",",","0",",","0",",","0",",","1","0",",","3",",","x">>,  \* 0,0,0,0,10,3,x
      <<",",",",",",",",",",",">>,                                  \* ,,,,,,
      <<"1",",","0",",","0",",","1","2","0">>,                      \* 1,0,0,120
      <<"0",",","0",",","0",",","9",",","-","1",",","0",",","0",",","8">> }
                                                                    \* 0,0,0,9,-1,0,0,8

\* The client has any player type when the status is fetched
InitStatus ==
    /\ player_type \in PlayerType
    /\ session = NoSession
    /\ nsessions = 0
    /\ closed = {}
    /\ locked = FALSE
    /\ waiters = <<>>
    /\ ncloses = 0
    /\ pc = [t \in Tasks |-> "idle"]
    /\ op = [t \in Tasks |-> "none"]
    /\ arg = [t \in Tasks |-> <<>>]
    /\ pending = [t \in Tasks |-> <<>>]
    /\ posted = [t \in Tasks |-> NoSession]
    /\ reqs = [t \in Tasks |-> <<>>]
    /\ outs = [t \in Tasks |-> <<>>]
    /\ ret = [t \in Tasks |-> NoRet]
    /\ reply = [t \in Tasks |-> NoReply]
    /\ InitCoordinator

NextStatus ==
    \/ CallGetPlayStatus("poll") /\ UNCHANGED adapter
    \/ \E a \in Answers(Texts(pending["poll"], PstLines, ExtLines)) : Respond("poll", a) /\ UNCHANGED adapter

SpecStatus == InitStatus /\ [][NextStatus]_vars

(***************************************************************************)
(* One caller, every operation, every form of answer                       *)
(***************************************************************************)
\* Reply texts that are no well-formed reply: nothing at all, blanks only,
\* a first field that is neither "00" nor "FE", "00" and "FE" with blanks
\* around them, a first field that only starts with "00", a reply whose
\* lines end with "\n" alone, a reply with an empty second line, a reply
\* with a third line
OddTexts ==
    { <<>>,
      <<" ", "\r", "\n">>,
      <<"0","1",",","\"","\"",",","1">>,
      <<" ","0","0"," ",",","x">>,
      <<" ","F","E","D",",","x">>,
      <<"0","0","1">>,
      <<"0","0">>,
      <<"0","0",",","x","\n","1",",","2">>,
      <<"0","0",",","x","\r","\n"," ">>,
      <<"0","0",",","x","\r","\n",",","\r","\n">>,
      <<"\r","\n","0","0",",","x","\r","\n","1",",","2","\r","\n","3",",","4","\r","\n">>,
      <<"F","E",",","x","\r","\n","1",",","2">> }

\* The HTTP statuses the device may answer with besides 200 and 404
OtherStatuses == {201, 204, 301, 401, 403, 500, 503}

AnswersOfAnyForm(data) ==
    Answers(Texts(data, PstLines, ExtLines) \cup OddTexts)
    \cup {Answer("none", st, "plain", OkLine) : st \in OtherStatuses}

NextRequest ==
    \/ CallTestConnection("user") /\ UNCHANGED adapter
    \/ CallDetectPlayerType("user") /\ UNCHANGED adapter
    \/ CallGetPlayStatus("user") /\ UNCHANGED adapter
    \/ \E command \in CommandNames : CallSendCommand("user", command) /\ UNCHANGED adapter
    \/ \E a \in AnswersOfAnyForm(pending["user"]) : Respond("user", a) /\ UNCHANGED adapter

SpecRequest == Init /\ [][NextRequest]_vars

(***************************************************************************)
(* Three callers at the lock                                               *)
(***************************************************************************)
\* The coordinator's poll and two service calls (media player and remote)
GateTasks == Tasks \cup {"remote"}

InitGate ==
    /\ player_type = AUTO
    /\ session = NoSession
    /\ nsessions = 0
    /\ closed = {}
    /\ locked = FALSE
    /\ waiters = <<>>
    /\ ncloses = 0
    /\ pc = [t \in GateTasks |-> "idle"]
    /\ op = [t \in GateTasks |-> "none"]
    /\ arg = [t \in GateTasks |-> <<>>]
    /\ pending = [t \in GateTasks |-> <<>>]
    /\ posted = [t \in GateTasks |-> NoSession]
    /\ reqs = [t \in GateTasks |-> <<>>]
    /\ outs = [t \in GateTasks |-> <<>>]
    /\ ret = [t \in GateTasks |-> NoRet]
    /\ reply = [t \in GateTasks |-> NoReply]
    /\ InitCoordinator

\* The callers detect the player type (two requests, so a caller comes back
\* to the lock while others wait) and send a command; the device answers
\* with an error, with 404, or not at all
NextGate ==
    \E t \in GateTasks :
        \/ CallDetectPlayerType(t) /\ UNCHANGED adapter
        \/ CallSendCommand(t, <<"u","p">>) /\ UNCHANGED adapter
        \/ Admit(t) /\ UNCHANGED adapter
        \/ \E a \in Outcomes({ErrorLine}) : Respond(t, a) /\ UNCHANGED adapter

SpecGate == InitGate /\ [][NextGate]_vars

\* Three callers of async_detect_player_type when every request is answered
\* (the session's ClientTimeout ends a request the device leaves open) and
\* the event loop runs the task that the lock has woken
NextDetect ==
    \E t \in GateTasks :
        \/ CallDetectPlayerType(t) /\ UNCHANGED adapter
        \/ Admit(t) /\ UNCHANGED adapter
        \/ \E a \in Outcomes({ErrorLine}) : Respond(t, a) /\ UNCHANGED adapter

FairGate ==
    /\ InitGate
    /\ [][NextDetect]_vars
    /\ WF_vars(\E t \in GateTasks : Admit(t) /\ UNCHANGED adapter)
    /\ WF_vars(\E t \in GateTasks : \E a \in Outcomes({ErrorLine}) : Respond(t, a) /\ UNCHANGED adapter)

(***************************************************************************)
(* The coordinator's poll: _async_update_data                              *)
(***************************************************************************)
\* The client's own state
client ==
    <<player_type, session, nsessions, closed, locked, waiters, ncloses,
      pc, op, arg, pending, posted, reqs, outs, ret, reply>>

\* The dataclass PanasonicBlurayData; media_position_updated_at is None or
\* the time of the poll
PanasonicBlurayData(state, player_status, media_position, media_position_updated_at, media_duration, chapter_current, chapter_total, ptype) ==
    [state |-> state, player_status |-> player_status,
     media_position |-> media_position,
     media_position_updated_at |-> media_position_updated_at,
     media_duration |-> media_duration, chapter_current |-> chapter_current,
     chapter_total |-> chapter_total, player_type |-> ptype]

\* The snapshot made of a fetched PlayStatus
Fetched(play_status, ptype) ==
    PanasonicBlurayData(play_status.state, play_status.status_string,
                        play_status.position, Some("now"), play_status.duration,
                        play_status.chapter_current, play_status.chapter_total, ptype)

\* The snapshot returned when the fetch raised and there is data already
Unavailable(ptype) ==
    PanasonicBlurayData("off", "Unavailable", 0, None, 0, None, None, ptype)

\* Variant: a poll that counts errors and never starts again from 0
AsyncUpdateData_NeverResets(fetched, ptype, errors, last) ==
    IF fetched.kind = "return"
    THEN [consecutive_errors |-> errors,
          update |-> Returns(Fetched(fetched.v[1], ptype))]
    ELSE [consecutive_errors |-> errors + 1,
          update |-> IF last # None
                     THEN Returns(Unavailable(ptype))
                     ELSE Raises("UpdateFailed")]

\* Variant: a poll that raises UpdateFailed whenever the fetch raised
AsyncUpdateData_AlwaysRaises(fetched, ptype, errors, last) ==
    IF fetched.kind = "return"
    THEN [consecutive_errors |-> 0,
          update |-> Returns(Fetched(fetched.v[1], ptype))]
    ELSE [consecutive_errors |-> errors + 1,
          update |-> Raises("UpdateFailed")]

\* _async_update_data from the end of async_get_play_status on: fetched is
\* what that call returned or raised, ptype the client's player type, errors
\* the counter and last the coordinator's data
AsyncUpdateData(fetched, ptype, errors, last) ==
    IF fetched.kind = "return"
    THEN [consecutive_errors |-> 0,
          update |-> Returns(Fetched(fetched.v[1], ptype))]
    ELSE [consecutive_errors |-> errors + 1,
          update |-> IF last # None
                     THEN Returns(Unavailable(ptype))
                     ELSE Raises("UpdateFailed")]

\* DataUpdateCoordinator keeps what _async_update_data returned; when it
\* raised UpdateFailed the data stay as they were
Published(result, last) ==
    IF result.kind = "return" THEN Some(result.v[1]) ELSE last

\* The coordinator polls at most MaxPolls times
MaxPolls == 4

\* The poll begins: _async_update_data calls async_get_play_status
PollCall ==
    /\ Len(polls) < MaxPolls
    /\ CallGetPlayStatus("poll")
    /\ UNCHANGED adapter

\* A request of the poll is answered: async_get_play_status goes on to its
\* next request, or it ends and _async_update_data ends with it
PollAnswer(a) ==
    /\ Respond("poll", a)
    /\ IF pc'["poll"] = "idle"
       THEN LET u == AsyncUpdateData(ret'["poll"], player_type',
                                     consecutive_errors, coordinator_data)
            IN  /\ consecutive_errors' = u.consecutive_errors
                /\ update' = u.update
                /\ coordinator_data' = Published(u.update, coordinator_data)
                /\ polls' = Append(polls, ret'["poll"].kind)
       ELSE UNCHANGED <<consecutive_errors, coordinator_data, update, polls>>
    /\ UNCHANGED svc

\* The device's answers to the poll: it is off the network, answers 404,
\* answers with an error, is stopped or in standby, or plays
PollPst == StoppedPst \cup {<<"1",",","5">>}

PollAnswers == Outcomes(Texts(pending["poll"], PollPst, StoppedExt))

(***************************************************************************)
(* The entities: the remote's and the media player's service calls         *)
(***************************************************************************)
\* The coordinator's own state
coordinator == <<consecutive_errors, coordinator_data, update, polls>>

POWER == <<"P","O","W","E","R">>

\* MediaPlayerState, and STATE_MAP.get(state, None)
MediaPlayerStateOFF == "off"

STATE_MAP(state) ==
    IF state \in {"off", "standby"} THEN Some(MediaPlayerStateOFF)
    ELSE IF state = "stopped" THEN Some("idle")
    ELSE IF state = "playing" THEN Some("playing")
    ELSE IF state = "paused" THEN Some("paused")
    ELSE None

\* The media player's state property, of the coordinator's data d
MediaPlayerState(d) == IF d = None THEN None ELSE STATE_MAP(d[1].state)

\* Variant: a turn_on that sends POWER only when the state is known to be off
TurnOnSends_OnlyWhenOff(state) == state = Some(MediaPlayerStateOFF)

\* async_turn_on returns without a command unless the state is OFF or None
TurnOnSends(state) == state \in {Some(MediaPlayerStateOFF), None}

\* async_turn_off returns without a command when the state is OFF
TurnOffSends(state) == state # Some(MediaPlayerStateOFF)

\* A service call as it begins
ServiceCall(name, commands, num_repeats) ==
    [NoService EXCEPT !.name = name, !.commands = commands,
                      !.num_repeats = num_repeats]

\* No service call is under way
NoCallUnderWay == pc["user"] = "idle" /\ svc.at \in {"none", "done", "raised"}

\* remote.async_send_command's two loops from round round (counted from 0)
\* and command idx (counted from 1) on, up to the next command that is in
\* COMMANDS in upper case; the others are counted and passed over
RECURSIVE Seek(_, _, _, _, _)
Seek(commands, num_repeats, round, idx, skipped) ==
    IF round >= num_repeats
    THEN [found |-> FALSE, round |-> round, idx |-> idx, skipped |-> skipped]
    ELSE IF idx > Len(commands)
    THEN Seek(commands, num_repeats, round + 1, 1, skipped)
    ELSE IF Upper(commands[idx]) \in COMMANDS
    THEN [found |-> TRUE, round |-> round, idx |-> idx, skipped |-> skipped]
    ELSE Seek(commands, num_repeats, round, idx + 1, skipped + 1)

\* Variant: a remote that asks for no refresh when it sent nothing
RemoteGoOn_RefreshesIfSent(s, round, idx) ==
    LET n == Seek(s.commands, s.num_repeats, round, idx, s.skipped)
        at == [s EXCEPT !.round = n.round, !.idx = n.idx, !.skipped = n.skipped]
    IN  /\ IF n.found
           THEN /\ CallSendCommand("user", Upper(s.commands[n.idx]))
                /\ svc' = [at EXCEPT !.at = "api",
                                     !.sent = Append(s.sent, Upper(s.commands[n.idx]))]
           ELSE /\ svc' = [at EXCEPT !.at = "done",
                                     !.refreshes = IF s.sent = <<>> THEN 0 ELSE 1,
                                     !.result = Returns(None)]
                /\ UNCHANGED client
        /\ UNCHANGED coordinator

\* remote.async_send_command goes on from round round and command idx: it
\* calls the client with the next recognised command in upper case, or, the
\* rounds over, it asks the coordinator for a refresh and returns
RemoteGoOn(s, round, idx) ==
    LET n == Seek(s.commands, s.num_repeats, round, idx, s.skipped)
        at == [s EXCEPT !.round = n.round, !.idx = n.idx, !.skipped = n.skipped]
    IN  /\ IF n.found
           THEN /\ CallSendCommand("user", Upper(s.commands[n.idx]))
                /\ svc' = [at EXCEPT !.at = "api",
                                     !.sent = Append(s.sent, Upper(s.commands[n.idx]))]
           ELSE /\ svc' = [at EXCEPT !.at = "done",
                                     !.refreshes = s.refreshes + 1,
                                     !.result = Returns(None)]
                /\ UNCHANGED client
        /\ UNCHANGED coordinator

\* The remote's send_command service is called
RemoteSendCommand(commands, num_repeats) ==
    /\ NoCallUnderWay
    /\ RemoteGoOn(ServiceCall("remote.send_command", commands, num_repeats), 0, 1)

\* remote.async_send_command once the client's call has ended with result:
\* a CannotConnect goes up through the remote, which catches nothing;
\* otherwise the remote sleeps delay_secs (0.4 by default)
RemoteCommandEnd(s, result) ==
    IF result.kind = "raise"
    THEN [s EXCEPT !.at = "raised", !.result = result]
    ELSE [s EXCEPT !.at = "sleep"]

\* The sleep is over
RemoteWake ==
    /\ svc.name = "remote.send_command"
    /\ svc.at = "sleep"
    /\ RemoteGoOn(svc, svc.round, svc.idx + 1)

\* coordinator.async_send_command once the client's call has ended with
\* result: a refresh is asked for if the command succeeded
CoordinatorSendCommandEnd(s, result) ==
    IF result.kind = "raise"
    THEN [s EXCEPT !.at = "raised", !.result = result]
    ELSE [s EXCEPT !.at = "done",
                   !.refreshes = IF result.v[1].success THEN s.refreshes + 1
                                 ELSE s.refreshes,
                   !.result = Returns(result.v[1].success)]

\* coordinator.async_send_command(command) up to the client's first await
CoordinatorSendCommand(s, command) ==
    /\ CallSendCommand("user", command)
    /\ svc' = [s EXCEPT !.at = "api", !.sent = <<command>>]
    /\ UNCHANGED coordinator

\* The service returns at once, nothing sent
ReturnsAtOnce(s) ==
    /\ svc' = [s EXCEPT !.at = "done", !.result = Returns(None)]
    /\ UNCHANGED client
    /\ UNCHANGED coordinator

\* media_player.async_turn_on
MediaPlayerTurnOn ==
    /\ NoCallUnderWay
    /\ IF TurnOnSends(MediaPlayerState(coordinator_data))
       THEN CoordinatorSendCommand(ServiceCall("media_player.turn_on", <<>>, 0), POWER)
       ELSE ReturnsAtOnce(ServiceCall("media_player.turn_on", <<>>, 0))

\* media_player.async_turn_off
MediaPlayerTurnOff ==
    /\ NoCallUnderWay
    /\ IF TurnOffSends(MediaPlayerState(coordinator_data))
       THEN CoordinatorSendCommand(ServiceCall("media_player.turn_off", <<>>, 0), POWER)
       ELSE ReturnsAtOnce(ServiceCall("media_player.turn_off", <<>>, 0))

MediaPlayerServices == {"media_player.turn_on", "media_player.turn_off"}

\* The client's call made for the service ends
ServiceAnswer(a) ==
    /\ svc.at = "api"
    /\ Respond("user", a)
    /\ svc' = IF svc.name = "remote.send_command"
              THEN RemoteCommandEnd(svc, ret'["user"])
              ELSE CoordinatorSendCommandEnd(svc, ret'["user"])
    /\ UNCHANGED coordinator

\* The command lists and the num_repeats the remote is called with: known
\* and unknown names, in lower and in upper case
MaxRepeats == 2

RemoteCommandLists ==
    LET up == <<"u","p">>
        nope == <<"N","O","P","E">>
    IN  {<<up>>, <<nope>>, <<nope, up>>, <<up, nope, POWER>>}

\* The coordinator polling, alone on the client
NextPoll ==
    \/ PollCall
    \/ \E a \in PollAnswers : PollAnswer(a)

SpecPoll == Init /\ [][NextPoll]_vars

\* What the coordinator's data may be when a service is called: nothing
\* yet, the snapshot of a fetched status, or the Unavailable snapshot
PublishedData ==
    {None, Some(Unavailable(AUTO))}
    \cup {Some(Fetched(PlayStatus("off", POWER_OFF, 0, 0, None, None), AUTO))}
    \cup {Some(Fetched(MapPstState(code, 0, 0, None, None), AUTO)) : code \in 0..3}
    \cup {Some(Fetched(PlayStatus("standby", POWER_OFF, 0, 0, None, None), AUTO))}

InitEntities ==
    /\ player_type = AUTO
    /\ session = NoSession
    /\ nsessions = 0
    /\ closed = {}
    /\ locked = FALSE
    /\ waiters = <<>>
    /\ ncloses = 0
    /\ pc = [t \in Tasks |-> "idle"]
    /\ op = [t \in Tasks |-> "none"]
    /\ arg = [t \in Tasks |-> <<>>]
    /\ pending = [t \in Tasks |-> <<>>]
    /\ posted = [t \in Tasks |-> NoSession]
    /\ reqs = [t \in Tasks |-> <<>>]
    /\ outs = [t \in Tasks |-> <<>>]
    /\ ret = [t \in Tasks |-> NoRet]
    /\ reply = [t \in Tasks |-> NoReply]
    /\ consecutive_errors = 0
    /\ coordinator_data \in PublishedData
    /\ update = NoRet
    /\ polls = <<>>
    /\ svc = NoService

\* The user's service calls, one after the other
NextEntities ==
    \/ \E commands \in RemoteCommandLists, num_repeats \in 1..MaxRepeats :
           RemoteSendCommand(commands, num_repeats)
    \/ RemoteWake
    \/ MediaPlayerTurnOn
    \/ MediaPlayerTurnOff
    \/ \E a \in Outcomes({OkLine, ErrorLine}) : ServiceAnswer(a)

SpecEntities == InitEntities /\ [][NextEntities]_vars

(***************************************************************************)
(* The config flow: validate_input on a client of its own                  *)
(***************************************************************************)
\* validate_input once a request of its client has been answered: s is the
\* call so far, idle whether the client's coroutine has ended and result
\* what it returned or raised. A test_connection that returns False raises
\* CannotConnect; one that returns True is followed by the detection, whose
\* player type's value is returned and whose CannotConnect goes up
ValidateInputStep(s, idle, result) ==
    IF ~idle THEN s
    ELSE IF s.at = "test"
    THEN IF result.v[1]
         THEN [s EXCEPT !.at = "tested"]
         ELSE [s EXCEPT !.at = "failed", !.result = Raises("CannotConnect")]
    ELSE IF result.kind = "raise"
    THEN [s EXCEPT !.at = "failed", !.result = result]
    ELSE [s EXCEPT !.at = "detected", !.result = result]

\* validate_input creates its client and awaits async_test_connection
ValidateInput ==
    /\ svc.at = "none"
    /\ CallTestConnection("user")
    /\ svc' = [ServiceCall("validate_input", <<>>, 0) EXCEPT !.at = "test"]
    /\ UNCHANGED coordinator

\* A request of the client is answered
ValidateAnswer(a) ==
    /\ svc.name = "validate_input"
    /\ svc.at \in {"test", "detect"}
    /\ Respond("user", a)
    /\ svc' = ValidateInputStep(
                  [svc EXCEPT !.sent = Append(@, pending["user"]),
                              !.got = Append(@, outs'["user"][Len(outs'["user"])].status)],
                  pc'["user"] = "idle", ret'["user"])
    /\ UNCHANGED coordinator

\* The test passed: validate_input awaits async_detect_player_type
ValidateDetect ==
    /\ svc.at = "tested"
    /\ CallDetectPlayerType("user")
    /\ svc' = [svc EXCEPT !.at = "detect"]
    /\ UNCHANGED coordinator

\* How validate_input ends once the client is closed
Ended(s) == [s EXCEPT !.at = IF s.result.kind = "raise" THEN "raised" ELSE "done"]

\* finally: await api.close(), which ends at once or suspends in
\* session.close()
ValidateClose ==
    /\ svc.at \in {"failed", "detected"}
    /\ \/ CloseNow("user") /\ svc' = Ended(svc)
       \/ CloseSuspend("user") /\ svc' = [svc EXCEPT !.at = "closing"]
    /\ UNCHANGED coordinator

ValidateClosed ==
    /\ svc.at = "closing"
    /\ CloseResume("user")
    /\ svc' = Ended(svc)
    /\ UNCHANGED coordinator

NextValidate ==
    \/ ValidateInput
    \/ \E a \in Answers(Texts(pending["user"], StoppedPst, StoppedExt)) : ValidateAnswer(a)
    \/ ValidateDetect
    \/ ValidateClose
    \/ ValidateClosed

SpecValidate == Init /\ [][NextValidate]_vars

(***************************************************************************)
(* Properties                                                              *)
(***************************************************************************)
\* Steps, told by what they change: t's request is answered; t, idle,
\* enters a call that sends a request
AnswerStep(t) == Len(outs'[t]) = Len(outs[t]) + 1

CallStep(t) == pc[t] = "idle" /\ pc'[t] \in {"wait", "flight"}

\* The request bodies as the wire protocol writes them
PstRequest ==
    <<"c","C","M","D","_","P","S","T",".","x","=","1","0","0","&",
      "c","C","M","D","_","P","S","T",".","y","=","1","0","0">>

GetStatusRequest ==
    <<"c","C","M","D","_","G","E","T","_","S","T","A","T","U","S",".","x","=","1","0","0","&",
      "c","C","M","D","_","G","E","T","_","S","T","A","T","U","S",".","y","=","1","0","0">>

RcRequest(token) ==
    <<"c","C","M","D","_","R","C","_">> \o token \o <<".","x","=","1","0","0","&">>
    \o <<"c","C","M","D","_","R","C","_">> \o token \o <<".","y","=","1","0","0">>

\* t has finished a call of the coroutine name
Finished(t, name) == op[t] = name /\ pc[t] = "idle" /\ ret[t].kind # "none"

\* The last call of t returned (did not raise)
Returned1(t) == ret[t].kind = "return"

\* A _send_request result that is ("ok", data) with data not empty
OkWithData(r) == ~r.raised /\ r.status = "ok" /\ r.data # <<>> /\ r.data[1] # <<>>

Is(r, status) == ~r.raised /\ r.status = status

C2_OneRcRequest ==
    \A t \in Tasks :
        (op[t] = "send_command" /\ Upper(arg[t]) \in COMMANDS)
        => /\ reqs[t] = <<RcRequest(Upper(arg[t]))>>
           /\ pc[t] = "idle" => Len(outs[t]) = 1

C2_Witness ==
    /\ Finished("user", "send_command")
    /\ arg["user"] = <<"s","K","i","P","_","T","h","E","_","T","r","A","i","L","e","R">>
    /\ Len(reqs["user"]) = 1

\* C3: when the PST request of get_play_status comes back "off", the call
\* returns the powered-off status (state "off", "Power Off", position 0,
\* duration 0, no chapters) having posted the PST request only, whatever the
\* player type.
C3_OffShortCircuits ==
    \A t \in Tasks :
        (op[t] = "get_play_status" /\ Len(outs[t]) >= 1 /\ Is(outs[t][1], "off"))
        => /\ pc[t] = "idle"
           /\ reqs[t] = <<PstRequest>>
           /\ Len(outs[t]) = 1
           /\ ret[t].kind = "return"
           /\ ret[t].v[1] = [state |-> "off", status_string |-> "Power Off",
                             position |-> 0, duration |-> 0,
                             chapter_current |-> <<>>, chapter_total |-> <<>>]

C3_Witness ==
    \E t \in Tasks :
        /\ Finished(t, "get_play_status")
        /\ Is(outs[t][1], "off")
        /\ player_type = BD

\* C4: when PST succeeds with a first field that parses to 0 (and a second
\* that parses) and GET_STATUS succeeds with fields of which the first
\* parses to 0 and the fifth, sixth and seventh, where present, parse, the
\* status is "standby" with the label "Power Off", the PST position (0 if
\* negative), the duration of the fifth field (0 if absent) and the chapters
\* of the sixth and seventh fields (None if absent).
C4_Standby ==
    \A t \in Tasks :
        (/\ op[t] = "get_play_status"
         /\ Len(outs[t]) = 2
         /\ OkWithData(outs[t][1])
         /\ OkWithData(outs[t][2])
         /\ LET pst == outs[t][1].data[1]
                ext == outs[t][2].data[1]
            IN  /\ IntAt(pst, 0) = [ok |-> TRUE, v |-> 0]
                /\ IntAt(pst, 1).ok
                /\ IntAt(ext, 0) = [ok |-> TRUE, v |-> 0]
                /\ IntAt(ext, 4).ok /\ IntAt(ext, 5).ok /\ IntAt(ext, 6).ok)
        => LET pst == outs[t][1].data[1]
               ext == outs[t][2].data[1]
               p == IntAt(pst, 1).v
           IN  /\ pc[t] = "idle"
               /\ ret[t].kind = "return"
               /\ ret[t].v[1].state = "standby"
               /\ ret[t].v[1].state # "stopped"
               /\ ret[t].v[1].status_string = "Power Off"
               /\ ret[t].v[1].position = IF p < 0 THEN 0 ELSE p
               /\ ret[t].v[1].duration = IntAt(ext, 4).v
               /\ ret[t].v[1].chapter_current
                    = IF Len(ext) > 5 THEN <<IntAt(ext, 5).v>> ELSE <<>>
               /\ ret[t].v[1].chapter_total
                    = IF Len(ext) > 6 THEN <<IntAt(ext, 6).v>> ELSE <<>>

C4_Witness ==
    /\ Finished("poll", "get_play_status")
    /\ Len(outs["poll"]) = 2
    /\ OkWithData(outs["poll"][2])
    /\ Len(outs["poll"][2].data[1]) = 6
    /\ Returned1("poll")
    /\ ret["poll"].v[1].state = "standby"
    /\ ret["poll"].v[1].duration = 7200
    /\ ret["poll"].v[1].chapter_current = <<3>>
    /\ ret["poll"].v[1].chapter_total = <<>>

\* C5: a step in which send_command gets its answer, whatever the answer,
\* leaves a player type that is BD or UHD as it is.
C5_CommandKeepsKnownType ==
    [][\A t \in Tasks :
          (AnswerStep(t) /\ op[t] = "send_command" /\ player_type \in {BD, UHD})
          => player_type' = player_type]_vars

C5_Witness ==
    /\ player_type = UHD
    /\ Finished("poll", "send_command")
    /\ Len(outs["poll"]) = 1 /\ Is(outs["poll"][1], "error")
    /\ Finished("user", "send_command")
    /\ Len(outs["user"]) = 1 /\ Is(outs["user"][1], "ok")
    /\ Returned1("user") /\ ret["user"].v[1].success

\* C6: when send_command gets its answer while the player type is AUTO: on
\* "error" the type becomes UHD and the call returns the failure "Command
\* failed"; on "ok" the type becomes BD and the call returns success; on
\* "off" the call returns the failure "Device is off or unreachable" and the
\* type stays AUTO.
C6_CommandInference ==
    [][\A t \in Tasks :
          (AnswerStep(t) /\ op[t] = "send_command" /\ player_type = AUTO
           /\ ~outs'[t][1].raised)
          => LET r == outs'[t][1]
                 result == ret'[t].v[1]
             IN  /\ pc'[t] = "idle"
                 /\ ret'[t].kind = "return"
                 /\ r.status = "error"
                      => /\ player_type' = UHD
                         /\ result.success = FALSE
                         /\ result.error = <<[text |-> "Command failed", command |-> <<>>]>>
                 /\ r.status = "ok"
                      => /\ player_type' = BD
                         /\ result.success = TRUE
                         /\ result.error = <<>>
                 /\ r.status = "off"
                      => /\ player_type' = AUTO
                         /\ result.success = FALSE
                         /\ result.error
                              = <<[text |-> "Device is off or unreachable", command |-> <<>>]>>]_vars

C6_Witness ==
    /\ player_type = UHD
    /\ Finished("user", "send_command")
    /\ Len(outs["user"]) = 1 /\ Is(outs["user"][1], "error")
    /\ op["poll"] = "none"

\* C7: whatever the callers do, a player type that is BD or UHD never
\* becomes AUTO again.
C7_NeverBackToAuto == [][player_type # AUTO => player_type' # AUTO]_vars

C7_Witness ==
    /\ player_type = BD
    /\ ncloses > 0
    /\ Finished("poll", "detect_player_type")
    /\ Len(outs["poll"]) = 2 /\ Is(outs["poll"][2], "off")
    /\ Finished("user", "close")

\* C8 as claimed: the player type changes only from AUTO (no BD to UHD, no
\* UHD to BD).
C8_OnlyFromAuto == [][player_type' # player_type => player_type = AUTO]_vars

\* C8 as amended: a player type that is BD or UHD changes only in a step in
\* which detect_player_type gets an answer, and then to BD or UHD; no other
\* operation changes it.
C8_KnownTypeChangesOnlyInDetect ==
    [][(player_type' # player_type /\ player_type # AUTO)
          => /\ player_type' \in {BD, UHD}
             /\ \E t \in Tasks : AnswerStep(t) /\ op[t] = "detect_player_type"]_vars

C8_Witness ==
    /\ player_type = UHD
    /\ Finished("poll", "detect_player_type")
    /\ Returned1("poll") /\ ret["poll"].v[1] = BD
    /\ Finished("user", "detect_player_type")
    /\ Returned1("user") /\ ret["user"].v[1] = UHD

\* C9: the player type is written only by detect_player_type and by
\* send_command: every step that changes it is a step in which one of the
\* two gets an answer; get_play_status, test_connection and close, and the
\* start of any call, leave it as it is.
C9_OnlyDetectAndCommandWrite ==
    [][player_type' # player_type
          => \E t \in Tasks :
                AnswerStep(t) /\ op[t] \in {"detect_player_type", "send_command"}]_vars

C9_Witness ==
    /\ player_type = AUTO
    /\ Finished("poll", "get_play_status")
    /\ Len(outs["poll"]) = 2 /\ OkWithData(outs["poll"][2])
    /\ Finished("user", "test_connection")
    /\ Is(outs["user"][1], "error")
    /\ ncloses > 0

\* C10: detect_player_type posts GET_STATUS first. If that returns "ok" with
\* fields, the type is BD and the call returns BD with one request posted.
\* If it returns anything else it posts PST next: on "error" the type is UHD,
\* on "ok" it is BD. What the call returns is the player type the client
\* holds when it returns.
C10_Detect ==
    [][\A t \in Tasks :
          /\ (CallStep(t) /\ op'[t] = "detect_player_type")
                => pending'[t] = GetStatusRequest
          /\ (AnswerStep(t) /\ op[t] = "detect_player_type"
              /\ ~outs'[t][Len(outs'[t])].raised)
                => LET n == Len(outs'[t])
                       r == outs'[t][n]
                   IN  /\ reqs[t][n] = IF n = 1 THEN GetStatusRequest ELSE PstRequest
                       /\ (n = 1 /\ OkWithData(r))
                            => /\ player_type' = BD
                               /\ pc'[t] = "idle"
                               /\ reqs'[t] = <<GetStatusRequest>>
                       /\ (n = 1 /\ ~OkWithData(r))
                            => /\ pc'[t] \in {"wait", "flight"}
                               /\ pending'[t] = PstRequest
                               /\ player_type' = player_type
                       /\ (n = 2 /\ r.status = "error") => player_type' = UHD
                       /\ (n = 2 /\ r.status = "ok") => player_type' = BD
                       /\ n = 2 => pc'[t] = "idle"
                       /\ pc'[t] = "idle"
                            => /\ ret'[t].kind = "return"
                               /\ ret'[t].v[1] = player_type']_vars

C10_Witness ==
    \E t \in Tasks :
        /\ Finished(t, "detect_player_type")
        /\ reqs[t] = <<GetStatusRequest, PstRequest>>
        /\ Is(outs[t][1], "ok") /\ Is(outs[t][2], "error")
        /\ ret[t].v = <<UHD>>
        /\ player_type = UHD

\* C11: when detect_player_type gets something else than "ok" with fields to
\* GET_STATUS and then "off" to PST, the step that ends the call leaves the
\* player type as it is and returns it; so a type that is AUTO stays AUTO and
\* AUTO is returned.
C11_InconclusiveStaysAuto ==
    [][\A t \in Tasks :
          (/\ AnswerStep(t) /\ op[t] = "detect_player_type"
           /\ Len(outs'[t]) = 2
           /\ ~outs'[t][1].raised /\ ~OkWithData(outs'[t][1])
           /\ Is(outs'[t][2], "off"))
          => /\ pc'[t] = "idle"
             /\ ret'[t].kind = "return"
             /\ ret'[t].v = <<player_type>>
             /\ player_type' = player_type
             /\ player_type = AUTO => (player_type' = AUTO /\ ret'[t].v = <<AUTO>>)]_vars

C11_Witness ==
    \E t \in Tasks :
        /\ Finished(t, "detect_player_type")
        /\ reqs[t] = <<GetStatusRequest, PstRequest>>
        /\ Is(outs[t][1], "error") /\ Is(outs[t][2], "off")
        /\ reply[t].exc = "ClientError"
        /\ ret[t].v = <<AUTO>>
        /\ player_type = AUTO

C13_TestConnectionPostsPst ==
    \A t \in Tasks :
        op[t] = "test_connection" => \A i \in 1..Len(reqs[t]) : reqs[t][i] = PstRequest

\* The callers whose POST is out
InFlight == {t \in DOMAIN pc : pc[t] = "flight"}

\* C14: with three callers in the public operations of one client, at most
\* one POST is out at any time, and the one who made it holds the lock.
C14_OneInFlight ==
    /\ Cardinality(InFlight) <= 1
    /\ InFlight # {} => locked

C14_Witness ==
    /\ InFlight # {}
    /\ Len(waiters) = 2
    /\ \E t \in InFlight : Len(reqs[t]) = 2

\* t's POST goes out in this step
PostStep(t) == pc'[t] = "flight" /\ (pc[t] # "flight" \/ AnswerStep(t))

\* C15: callers get the lock in the order in which they began to wait for
\* it: one who begins to wait goes to the end of the queue, the one who stops
\* waiting (whose POST goes out) is the first of the queue, the queue changes
\* in no other way, and nobody who did not wait posts while others wait.
C15_Fifo ==
    [][/\ \A t \in DOMAIN pc :
            /\ (pc[t] # "wait" /\ pc'[t] = "wait") => waiters' = Append(waiters, t)
            /\ (pc[t] = "wait" /\ pc'[t] # "wait")
                  => /\ pc'[t] = "flight"
                     /\ waiters # <<>> /\ Head(waiters) = t
                     /\ waiters' = Tail(waiters)
            /\ (pc[t] # "wait" /\ PostStep(t)) => waiters = <<>>
       /\ waiters' # waiters
            => \E t \in DOMAIN pc : (pc[t] = "wait") # (pc'[t] = "wait")
       /\ {waiters'[i] : i \in 1..Len(waiters')} = {t \in DOMAIN pc : pc'[t] = "wait"}]_vars

C15_Witness ==
    /\ ~locked
    /\ Len(waiters) = 2
    /\ \E t \in DOMAIN pc : pc[t] = "idle" /\ ret[t].kind # "none"
    /\ \E t \in DOMAIN pc : pc[t] = "wait" /\ Len(reqs[t]) = 1

\* C16: no request is made twice. test_connection and send_command post at
\* most one request, detect_player_type and get_play_status at most two, and
\* the two are different requests; every request posted gets one result; a
\* finished test_connection, detect_player_type or get_play_status has
\* posted at least one.
C16_NoRetry ==
    \A t \in DOMAIN pc :
        /\ Len(reqs[t]) <= (IF op[t] \in {"detect_player_type", "get_play_status"} THEN 2
                            ELSE IF op[t] \in {"test_connection", "send_command"} THEN 1
                            ELSE 0)
        /\ Len(reqs[t]) = 2 => reqs[t][1] # reqs[t][2]
        /\ Len(outs[t]) <= Len(reqs[t])
        /\ pc[t] = "idle" => Len(outs[t]) = Len(reqs[t])
        /\ (pc[t] = "idle"
              /\ op[t] \in {"test_connection", "detect_player_type", "get_play_status"})
             => Len(reqs[t]) >= 1

C16_Witness ==
    /\ Finished("user", "get_play_status")
    /\ Len(reqs["user"]) = 2
    /\ reply["user"].exc = "TimeoutError"
    /\ Returned1("user")

\* C17: a POST that ends in aiohttp.ClientError or in asyncio.TimeoutError
\* makes _send_request return ("off", None); it does not raise.
C17_TransportErrorsAreOff ==
    \A t \in DOMAIN pc :
        (Len(outs[t]) >= 1 /\ reply[t].exc \in {"ClientError", "TimeoutError"})
        => LET r == outs[t][Len(outs[t])]
           IN  /\ ~r.raised
               /\ r.status = "off"
               /\ r.data = <<>>

C17_Witness ==
    /\ Finished("user", "send_command")
    /\ reply["user"].exc = "TimeoutError"
    /\ Is(outs["user"][1], "off")
    /\ Returned1("user")

\* C18: an answer with an HTTP status that is not 200 makes _send_request
\* raise CannotConnect (it returns neither "off" nor "error"), and
\* send_command, get_play_status and detect_player_type end there, raising
\* the same CannotConnect.
C18_StatusRaises ==
    \A t \in DOMAIN pc :
        (Len(outs[t]) >= 1 /\ reply[t].exc = "none" /\ reply[t].status # 200)
        => /\ outs[t][Len(outs[t])].raised
           /\ outs[t][Len(outs[t])].status = "CannotConnect"
           /\ op[t] \in {"send_command", "get_play_status", "detect_player_type"}
                => /\ pc[t] = "idle"
                   /\ ret[t].kind = "raise"
                   /\ ret[t].v = <<"CannotConnect">>

C18_Witness ==
    /\ Finished("user", "get_play_status")
    /\ Len(outs["user"]) = 2
    /\ reply["user"].status = 503
    /\ ret["user"].kind = "raise"

\* The part of s before the first sep (all of s when sep is not in s), and
\* the part after it (None when sep is not in s)
FirstPlace(s, sep) == CHOOSE k \in MatchPlaces(s, sep) : \A j \in MatchPlaces(s, sep) : k <= j

Before(s, sep) ==
    IF MatchPlaces(s, sep) = {} THEN s ELSE SubSeq(s, 1, FirstPlace(s, sep) - 1)

After(s, sep) ==
    IF MatchPlaces(s, sep) = {} THEN None
    ELSE Some(SubSeq(s, FirstPlace(s, sep) + Len(sep), Len(s)))

\* The result the claim gives for a reply text; trimmed says whether the
\* text and its first field are taken without the whitespace around them
ReplyRead(text, trimmed) ==
    LET whole == IF trimmed THEN Strip(text) ELSE text
        field == Before(Before(whole, CRLF), Comma)
        first == IF trimmed THEN Strip(field) ELSE field
        rest == After(whole, CRLF)
    IN  IF StartsWith(first, <<"F", "E">>) \/ first # <<"0", "0">>
        THEN [raised |-> FALSE, status |-> "error", data |-> <<>>]
        ELSE IF rest # <<>>
        THEN [raised |-> FALSE, status |-> "ok",
              data |-> <<Split(Before(rest[1], CRLF), Comma)>>]
        ELSE [raised |-> FALSE, status |-> "ok", data |-> <<>>]

\* A status 200 answer whose body decodes to a text is in
Decoded(t) ==
    /\ Len(outs[t]) >= 1
    /\ reply[t].exc = "none" /\ reply[t].status = 200 /\ reply[t].gz \in {"plain", "gzip"}

\* C19 as claimed: the result is "error" without fields when the first field
\* of the first line of the reply begins with "FE" or is not "00"; else it
\* is "ok", with the second line split at the commas when there is one.
C19_ParseAsWritten ==
    \A t \in DOMAIN pc :
        Decoded(t) => outs[t][Len(outs[t])] = ReplyRead(reply[t].text, FALSE)

\* C19 as amended: the same of the reply without the whitespace around it
\* and of its first field without the whitespace around it.
C19_ParseTrimmed ==
    \A t \in DOMAIN pc :
        Decoded(t) => outs[t][Len(outs[t])] = ReplyRead(reply[t].text, TRUE)

C19_Witness ==
    /\ Finished("user", "detect_player_type")
    /\ reqs["user"] = <<GetStatusRequest>>
    /\ reply["user"].text
         = <<"\r","\n","0","0",",","x","\r","\n","1",",","2","\r","\n","3",",","4","\r","\n">>
    /\ outs["user"][1].status = "ok"
    /\ outs["user"][1].data = << <<<<"1">>, <<"2">>>> >>

\* C20: when the PST request of get_play_status returns "error", or "ok"
\* without fields, the call returns the unknown status (state "unknown",
\* "Unknown", position 0, duration 0, no chapters) having posted the PST
\* request only, whatever the player type.
C20_NoFieldsIsUnknown ==
    \A t \in DOMAIN pc :
        (/\ op[t] = "get_play_status"
         /\ Len(outs[t]) >= 1
         /\ Is(outs[t][1], "error") \/ (Is(outs[t][1], "ok") /\ outs[t][1].data = <<>>))
        => /\ pc[t] = "idle"
           /\ reqs[t] = <<PstRequest>>
           /\ Len(outs[t]) = 1
           /\ ret[t].kind = "return"
           /\ ret[t].v[1] = [state |-> "unknown", status_string |-> "Unknown",
                             position |-> 0, duration |-> 0,
                             chapter_current |-> <<>>, chapter_total |-> <<>>]

C20_Witness ==
    /\ Finished("poll", "get_play_status")
    /\ Is(outs["poll"][1], "ok") /\ outs["poll"][1].data = <<>>
    /\ player_type = BD
    /\ ret["poll"].v[1].state = "unknown"

\* The fields of the PST line and of the GET_STATUS line that t's
\* get_play_status got (when it got them)
PstFields(t) == outs[t][1].data[1]

ExtFields(t) == outs[t][2].data[1]

\* Both fields read from the PST line parse
PstParses(t) == IntAt(PstFields(t), 0).ok /\ IntAt(PstFields(t), 1).ok

\* The standby case: GET_STATUS was asked and answered with fields, of which
\* those read parse and the first is 0, and the PST state is 0
StandbyCase(t, code) ==
    /\ Len(outs[t]) = 2
    /\ OkWithData(outs[t][2])
    /\ IntAt(ExtFields(t), 0) = [ok |-> TRUE, v |-> 0]
    /\ IntAt(ExtFields(t), 4).ok /\ IntAt(ExtFields(t), 5).ok /\ IntAt(ExtFields(t), 6).ok
    /\ code = 0

\* The state and the label of a PST state
StateOfCode(code) ==
    IF code = 0 THEN <<"stopped", "Stopped">>
    ELSE IF code = 1 THEN <<"playing", "Playback">>
    ELSE IF code = 2 THEN <<"paused", "Pause Playback">>
    ELSE <<"unknown", "Unknown">>

\* t's get_play_status got fields to PST and has returned a status
StatusReturned(t) ==
    /\ op[t] = "get_play_status"
    /\ pc[t] = "idle"
    /\ Len(outs[t]) >= 1
    /\ OkWithData(outs[t][1])
    /\ ret[t].kind = "return"

C22_FieldByField ==
    \A t \in DOMAIN pc :
        StatusReturned(t)
        => /\ ~IntAt(PstFields(t), 0).ok => ret[t].v[1].state = "unknown"
           /\ (IntAt(PstFields(t), 0).ok /\ ~IntAt(PstFields(t), 1).ok)
                => /\ ret[t].v[1].position = 0
                   /\ ~StandbyCase(t, IntAt(PstFields(t), 0).v)
                        => ret[t].v[1].state = StateOfCode(IntAt(PstFields(t), 0).v)[1]

\* C22 as amended: when either field read from the PST line does not parse,
\* the state is that of the PST state 0 ("stopped", or "standby" in the
\* standby case) and the position is 0, whatever the other field is.
C22_BothFallBack ==
    \A t \in DOMAIN pc :
        (StatusReturned(t) /\ ~PstParses(t))
        => /\ ret[t].v[1].position = 0
           /\ ret[t].v[1].state = IF StandbyCase(t, 0) THEN "standby" ELSE "stopped"
           /\ ret[t].v[1].state # "unknown"

C22_Witness ==
    /\ StatusReturned("poll")
    /\ PstFields("poll") = <<<<"1">>, <<"x">>>>
    /\ ret["poll"].v[1].state = "stopped"
    /\ ret["poll"].v[1].position = 0
    /\ Len(outs["poll"]) = 2

\* C23: with the player type UHD, a PST line whose fields are no integers
\* gives the status "stopped", "Stopped", with position 0, duration 0 and no
\* chapters, the PST request being the only one posted.
C23_UhdParseError ==
    \A t \in DOMAIN pc :
        (/\ StatusReturned(t)
         /\ player_type = UHD
         /\ ~IntAt(PstFields(t), 0).ok \/ ~IntAt(PstFields(t), 1).ok)
        => /\ reqs[t] = <<PstRequest>>
           /\ ret[t].v[1] = [state |-> "stopped", status_string |-> "Stopped",
                             position |-> 0, duration |-> 0,
                             chapter_current |-> <<>>, chapter_total |-> <<>>]

C23_Witness ==
    /\ StatusReturned("poll")
    /\ player_type = UHD
    /\ PstFields("poll") = <<<<"x">>, <<"y">>>>
    /\ ret["poll"].v[1].state = "stopped"

\* C24: every status get_play_status returns has a position that is not
\* negative; a negative second PST field gives the position 0.
C24_PositionNotNegative ==
    \A t \in DOMAIN pc :
        (op[t] = "get_play_status" /\ pc[t] = "idle" /\ ret[t].kind = "return")
        => /\ ret[t].v[1].position >= 0
           /\ (OkWithData(outs[t][1]) /\ PstParses(t) /\ IntAt(PstFields(t), 1).v < 0)
                => ret[t].v[1].position = 0
           /\ (OkWithData(outs[t][1]) /\ PstParses(t) /\ IntAt(PstFields(t), 1).v >= 0)
                => ret[t].v[1].position = IntAt(PstFields(t), 1).v

C24_Witness ==
    /\ StatusReturned("poll")
    /\ PstFields("poll") = <<<<"2">>, <<"-","5">>, <<"0">>, <<"0">>>>
    /\ ret["poll"].v[1].state = "paused"
    /\ ret["poll"].v[1].position = 0

\* The PST state and the position that t's status is built on: those of the
\* PST line when both parse, 0 and 0 otherwise, a negative position being 0
PstCode(t) == IF PstParses(t) THEN IntAt(PstFields(t), 0).v ELSE 0

PstPosition(t) ==
    IF PstParses(t) /\ IntAt(PstFields(t), 1).v > 0 THEN IntAt(PstFields(t), 1).v ELSE 0

\* C25: get_play_status posts GET_STATUS exactly when PST returned "ok" with
\* fields and the player type is not UHD at that moment (AUTO or BD), and
\* posts it only after PST has been answered; otherwise the call ends with
\* PST as its only request.
C25_ExtendedProbe ==
    [][\A t \in Tasks :
        /\ (op[t] = "get_play_status" /\ AnswerStep(t) /\ Len(outs[t]) = 0)
           => IF OkWithData(outs'[t][1]) /\ player_type # UHD
              THEN /\ pc'[t] \in {"wait", "flight"}
                   /\ pending'[t] = GetStatusRequest
                   /\ reqs'[t] = IF pc'[t] = "flight"
                                 THEN <<PstRequest, GetStatusRequest>>
                                 ELSE <<PstRequest>>
              ELSE pc'[t] = "idle" /\ reqs'[t] = <<PstRequest>>
        /\ (op'[t] = "get_play_status" /\ Len(reqs'[t]) > Len(reqs[t]))
           => \/ reqs'[t] = <<PstRequest>> /\ outs'[t] = <<>>
              \/ /\ reqs'[t] = <<PstRequest, GetStatusRequest>>
                 /\ Len(outs'[t]) = 1
                 /\ OkWithData(outs'[t][1])]_vars

C25_Witness ==
    /\ op["poll"] = "get_play_status"
    /\ pc["poll"] = "flight"
    /\ reqs["poll"] = <<PstRequest, GetStatusRequest>>
    /\ player_type = AUTO
    /\ op["user"] = "get_play_status"
    /\ pc["user"] = "idle"
    /\ ret["user"].kind = "return"
    /\ reqs["user"] = <<PstRequest, GetStatusRequest>>

\* C26: when the extended request returns "off", "error" or "ok" without
\* fields, get_play_status returns a status with the state and the position
\* of the PST line, duration 0 and no chapters.
C26_ExtendedFails ==
    \A t \in DOMAIN pc :
        (/\ StatusReturned(t)
         /\ Len(outs[t]) = 2
         /\ ~outs[t][2].raised
         /\ ~OkWithData(outs[t][2]))
        => /\ <<ret[t].v[1].state, ret[t].v[1].status_string>> = StateOfCode(PstCode(t))
           /\ ret[t].v[1].position = PstPosition(t)
           /\ ret[t].v[1].duration = 0
           /\ ret[t].v[1].chapter_current = <<>>
           /\ ret[t].v[1].chapter_total = <<>>

C26_Witness ==
    /\ StatusReturned("poll")
    /\ Len(outs["poll"]) = 2
    /\ Is(outs["poll"][2], "off")
    /\ PstFields("poll") = <<<<"1">>, <<"1", "2", "0">>>>
    /\ ret["poll"].v[1].state = "playing"
    /\ ret["poll"].v[1].position = 120
    /\ ret["poll"].v[1].duration = 0

\* C27: when the extended request returns "ok" with fields of which those
\* read are integers, the duration is the fifth field (0 when there are
\* fewer than five), chapter_current the sixth and chapter_total the seventh
\* when the line has them and None when it has not; the state is that of
\* the PST line unless the standby case applies.
C27_ExtendedFields ==
    \A t \in DOMAIN pc :
        (/\ StatusReturned(t)
         /\ Len(outs[t]) = 2
         /\ OkWithData(outs[t][2])
         /\ \A i \in {0, 4, 5, 6} : IntAt(ExtFields(t), i).ok)
        => LET ext == ExtFields(t)
           IN  /\ ret[t].v[1].duration
                    = IF Len(ext) >= 5 THEN ParseInt(ext[5]).v ELSE 0
               /\ ret[t].v[1].chapter_current
                    = IF Len(ext) >= 6 THEN <<ParseInt(ext[6]).v>> ELSE <<>>
               /\ ret[t].v[1].chapter_total
                    = IF Len(ext) >= 7 THEN <<ParseInt(ext[7]).v>> ELSE <<>>
               /\ ret[t].v[1].position = PstPosition(t)
               /\ ret[t].v[1].state
                    = IF StandbyCase(t, PstCode(t)) THEN "standby"
                      ELSE StateOfCode(PstCode(t))[1]

C27_Witness ==
    /\ StatusReturned("poll")
    /\ Len(outs["poll"]) = 2
    /\ OkWithData(outs["poll"][2])
    /\ ExtFields("poll") = <<<<"0">>, <<"0">>, <<"0">>, <<"9">>, <<"-", "1">>,
                             <<"0">>, <<"0">>, <<"8">>>>
    /\ PstFields("poll") = <<<<"1">>, <<"1", "2", "0">>>>
    /\ ret["poll"].v[1].state = "playing"
    /\ ret["poll"].v[1].duration = 0 - 1
    /\ ret["poll"].v[1].chapter_total = <<0>>

\* C28: whatever the fields of the PST line and of the GET_STATUS line are,
\* a get_play_status whose requests did not raise returns a status.
C28_NeverRaisesOnFields ==
    \A t \in DOMAIN pc :
        (/\ op[t] = "get_play_status"
         /\ pc[t] = "idle"
         /\ outs[t] # <<>>
         /\ \A i \in 1..Len(outs[t]) : ~outs[t][i].raised)
        => /\ ret[t].kind = "return"
           /\ ret[t].v[1].state \in {"off", "standby", "stopped", "playing", "paused", "unknown"}

C28_Witness ==
    /\ StatusReturned("poll")
    /\ Len(outs["poll"]) = 2
    /\ PstFields("poll") = <<<<"x">>, <<"y">>>>
    /\ OkWithData(outs["poll"][2])
    /\ ExtFields("poll") = <<<<>>, <<>>, <<>>, <<>>, <<>>, <<>>, <<>>>>
    /\ ret["poll"].v[1].state = "stopped"

\* The client holds a session that is open
HoldsOpenSession == session # NoSession /\ session \notin closed

\* C29: no session exists before the first request; each request is posted
\* on the session the client holds after _get_session, which is open at that
\* moment: the one it held when that one is open, and a new one, which takes
\* its place, when it held none or a closed one. Sessions are created in no
\* other step.
C29_SessionPerRequest ==
    /\ session = NoSession /\ nsessions = 0
    /\ [][/\ \A t \in Tasks :
              PostStep(t)
              => /\ posted'[t] = session'
                 /\ session' \in 1..nsessions'
                 /\ session' \notin closed'
                 /\ IF HoldsOpenSession
                    THEN session' = session /\ nsessions' = nsessions
                    ELSE session' = nsessions + 1 /\ nsessions' = nsessions + 1
          /\ nsessions' # nsessions => \E t \in Tasks : PostStep(t)]_vars

C29_Witness ==
    /\ pc["user"] = "closing"
    /\ closed = {1}
    /\ nsessions = 2
    /\ session = 2
    /\ pc["poll"] = "flight"
    /\ posted["poll"] = 2
    /\ Len(reqs["poll"]) = 2

\* t calls close(): it is suspended in session.close(), or it returns at
\* once and nobody's place changes
CloseCall(t) ==
    /\ pc[t] = "idle"
    /\ ncloses' = ncloses + 1
    /\ op'[t] = "close"
    /\ pc'[t] = "closing" \/ pc' = pc

\* t's close() returns
CloseEnd(t) == pc'[t] = "idle" /\ (CloseCall(t) \/ pc[t] = "closing")

ExtReturned(t) ==
    /\ StatusReturned(t)
    /\ Len(outs[t]) = 2
    /\ OkWithData(outs[t][2])

\* C35: when GET_STATUS returned fields of which the first parses to 0 and
\* the PST state is 0, the status is "standby", also when a later field of
\* the GET_STATUS line (duration or a chapter) does not parse.
C35_StandbyByStatesOnly ==
    \A t \in DOMAIN pc :
        (/\ ExtReturned(t)
         /\ IntAt(ExtFields(t), 0) = [ok |-> TRUE, v |-> 0]
         /\ PstCode(t) = 0)
        => ret[t].v[1].state = "standby"

\* C36: a field of the GET_STATUS line that does not parse ends the reading
\* of the line without raising, and what was read before it is kept: with
\* the first field failing the duration is 0 and there are no chapters; with
\* the sixth failing the duration is kept and there are no chapters; with
\* the seventh failing the duration and chapter_current are kept and there
\* is no chapter_total.
C36_ParsedBeforeFailureKept ==
    \A t \in DOMAIN pc :
        (/\ op[t] = "get_play_status" /\ pc[t] = "idle"
         /\ Len(outs[t]) = 2
         /\ OkWithData(outs[t][1])
         /\ OkWithData(outs[t][2]))
        => LET e == ExtFields(t)
               e0 == IntAt(e, 0)
               e4 == IntAt(e, 4)
               e5 == IntAt(e, 5)
               e6 == IntAt(e, 6)
           IN  /\ ret[t].kind = "return"
               /\ ~e0.ok
                  => /\ ret[t].v[1].duration = 0
                     /\ ret[t].v[1].chapter_current = <<>>
                     /\ ret[t].v[1].chapter_total = <<>>
               /\ (e0.ok /\ e4.ok /\ ~e5.ok)
                  => /\ ret[t].v[1].duration = e4.v
                     /\ ret[t].v[1].chapter_current = <<>>
                     /\ ret[t].v[1].chapter_total = <<>>
               /\ (e0.ok /\ e4.ok /\ e5.ok /\ ~e6.ok)
                  => /\ ret[t].v[1].duration = e4.v
                     /\ ret[t].v[1].chapter_current = <<e5.v>>
                     /\ ret[t].v[1].chapter_total = <<>>

C36_Witness ==
    /\ ExtReturned("poll")
    /\ PstFields("poll") = <<<<"1">>, <<"1", "2", "0">>>>
    /\ ExtFields("poll") = <<<<"0">>, <<"0">>, <<"0">>, <<"0">>, <<"1", "0">>, <<"3">>, <<"x">>>>
    /\ ret["poll"].v[1].state = "playing"
    /\ ret["poll"].v[1].duration = 10
    /\ ret["poll"].v[1].chapter_current = <<3>>
    /\ ret["poll"].v[1].chapter_total = <<>>

\* C37: no session is closed while a request posted on it is in flight.
C37_NoCloseUnderRequest ==
    \A t \in DOMAIN pc : pc[t] = "flight" => posted[t] \notin closed

\* t's get_play_status has got its PST answer and waits for the lock to post
\* GET_STATUS
BetweenProbes(t) ==
    /\ op[t] = "get_play_status"
    /\ pc[t] = "wait"
    /\ Len(outs[t]) = 1

\* u's send_command is answered with an error and sets the player type UHD
SetsUhd(u) ==
    /\ op[u] = "send_command"
    /\ AnswerStep(u)
    /\ player_type # UHD
    /\ player_type' = UHD

\* C39 as claimed: get_play_status reads the player type once, when PST has
\* returned; other callers' requests may be posted between its two requests;
\* and a send_command that is answered between the two requests and sets UHD
\* suppresses the GET_STATUS request of that get_play_status.
C39_CommandBetweenSuppresses ==
    [][\A t, u \in Tasks :
        (BetweenProbes(t) /\ SetsUhd(u))
        => pc'[t] = "idle" /\ reqs'[t] = <<PstRequest>>]_vars

\* C39 as amended: get_play_status reads the player type once, in the step
\* in which PST returns. A send_command that sets UHD before that step
\* suppresses the GET_STATUS request; one that is answered between the two
\* requests does not: the call still waits for the lock and then posts
\* GET_STATUS, with the player type UHD.
C39_TypeReadWhenPstReturns ==
    [][\A t, u \in Tasks :
        /\ (op[t] = "get_play_status" /\ AnswerStep(t) /\ Len(outs[t]) = 0)
           => (pc'[t] # "idle") = (OkWithData(outs'[t][1]) /\ player_type # UHD)
        /\ (BetweenProbes(t) /\ SetsUhd(u))
           => /\ BetweenProbes(t)'
              /\ pending'[t] = GetStatusRequest
              /\ reqs'[t] = <<PstRequest>>
        /\ (BetweenProbes(t) /\ PostStep(t))
           => reqs'[t] = <<PstRequest, GetStatusRequest>>]_vars

C39_Witness ==
    /\ op["poll"] = "get_play_status"
    /\ pc["poll"] = "flight"
    /\ reqs["poll"] = <<PstRequest, GetStatusRequest>>
    /\ player_type = UHD
    /\ op["user"] = "send_command"
    /\ pc["user"] = "idle"
    /\ Len(outs["user"]) = 1
    /\ Is(outs["user"][1], "error")

\* t's _send_request ends: it returns or raises
RequestEnds(t) == pc[t] = "flight" /\ AnswerStep(t)

\* C38: the lock is released whenever _send_request ends, whether it
\* returns a reply, returns "off" or raises CannotConnect, so the lock is
\* held only while a request is in flight; a call that has ended holds no
\* lock; and, every request being answered, each caller that waits for the
\* lock posts its request in the end.
C38_GateReleased ==
    /\ [](locked <=> InFlight # {})
    /\ [][\A t \in DOMAIN pc :
            RequestEnds(t)
            => /\ locked' = (pc'[t] = "flight")
               /\ pc'[t] = "idle" => ~locked' /\ t \notin InFlight']_vars
    /\ [](\A i \in 1..Len(waiters) : pc[waiters[i]] = "wait")
    /\ \A t \in GateTasks : (pc[t] = "wait") ~> (pc[t] = "flight")

C38_Witness ==
    /\ ret["user"].kind = "raise"
    /\ pc["user"] = "idle"
    /\ ~locked
    /\ waiters = <<"remote", "poll">>
    /\ Len(reqs["remote"]) = 1

\* The poll ends in this step: async_get_play_status returns or raises
PollEnds == pc["poll"] = "flight" /\ pc'["poll"] = "idle"

\* The number of polls at the end of h whose fetch raised
RECURSIVE FailedInARow(_)
FailedInARow(h) ==
    IF h = <<>> \/ h[Len(h)] # "raise" THEN 0
    ELSE 1 + FailedInARow(SubSeq(h, 1, Len(h) - 1))

\* C31: the coordinator's consecutive-error counter is 0 after a poll whose
\* status fetch returned and one more than before after a poll whose fetch
\* raised, so it is the number of polls that failed in a row since the last
\* one that succeeded.
C31_ConsecutiveErrors ==
    /\ [][PollEnds
            => consecutive_errors' = IF ret'["poll"].kind = "return" THEN 0
                                     ELSE consecutive_errors + 1]_vars
    /\ [](consecutive_errors = FailedInARow(polls))

C31_Witness ==
    /\ polls = <<"raise", "return", "raise", "raise">>
    /\ consecutive_errors = 2

RECURSIVE Recognised(_)
Recognised(cs) ==
    IF cs = <<>> THEN <<>>
    ELSE (IF Upper(Head(cs)) \in COMMANDS THEN <<Upper(Head(cs))>> ELSE <<>>)
         \o Recognised(Tail(cs))

\* s, n times over
RECURSIVE Times(_, _)
Times(s, n) == IF n = 0 THEN <<>> ELSE s \o Times(s, n - 1)

\* What the remote has to send in all: the recognised commands, each round
ToSend == Times(Recognised(svc.commands), svc.num_repeats)

IsPrefix(s, t) == Len(s) <= Len(t) /\ s = SubSeq(t, 1, Len(s))

\* The call of the service is over: it returned or it raised
RemoteOver == svc.name = "remote.send_command" /\ svc.at \in {"done", "raised"}

\* coordinator.async_send_command asks for a refresh exactly when the
\* command succeeded
RefreshOnlyOnSuccess ==
    (svc.name \in MediaPlayerServices /\ svc.at = "done" /\ svc.sent # <<>>)
    => /\ ret["user"].kind = "return"
       /\ svc.refreshes = IF ret["user"].v[1].success THEN 1 ELSE 0
       /\ svc.result = Returns(ret["user"].v[1].success)

\* The remote calls the client with the commands of ToSend, in order and
\* with nothing else, and has asked for no refresh before it is through
SendsInOrder ==
    svc.name = "remote.send_command"
    => /\ IsPrefix(svc.sent, ToSend)
       /\ svc.at = "api" => /\ op["user"] = "send_command"
                            /\ arg["user"] = svc.sent[Len(svc.sent)]
                            /\ pending["user"] = CommandData(arg["user"])
       /\ svc.at \in {"api", "sleep"} => svc.refreshes = 0

\* C33 as claimed: every call of the remote's send_command sends the
\* recognised commands of every round in upper case and in order, passes
\* over the others, and asks for one refresh when the rounds are over,
\* whatever became of the commands; the coordinator's send_command asks
\* for a refresh only when its command succeeded.
C33_RefreshAfterAllRounds ==
    /\ SendsInOrder
    /\ RemoteOver
       => /\ svc.sent = ToSend
          /\ svc.skipped = svc.num_repeats
                           * (Len(svc.commands) - Len(Recognised(svc.commands)))
          /\ svc.refreshes = 1
    /\ RefreshOnlyOnSuccess

\* C33 as amended: the same, unless the client raises CannotConnect on a
\* command (the device answered with another HTTP status than 200): the
\* remote's call then ends with that fault, the commands after it are not
\* sent and no refresh is asked for.
C33_RefreshUnlessRaised ==
    /\ SendsInOrder
    /\ (svc.name = "remote.send_command" /\ svc.at = "done")
       => /\ svc.sent = ToSend
          /\ svc.skipped = svc.num_repeats
                           * (Len(svc.commands) - Len(Recognised(svc.commands)))
          /\ svc.refreshes = 1
    /\ (svc.name = "remote.send_command" /\ svc.at = "raised")
       => /\ svc.result = Raises("CannotConnect")
          /\ ret["user"] = svc.result
          /\ svc.sent # <<>>
          /\ svc.refreshes = 0
    /\ RefreshOnlyOnSuccess

C33_Witness ==
    /\ svc.name = "remote.send_command"
    /\ svc.at = "done"
    /\ svc.num_repeats = 2
    /\ Len(svc.commands) = 3
    /\ Len(svc.sent) = 4
    /\ svc.skipped = 2
    /\ svc.refreshes = 1
    /\ ret["user"].kind = "return"
    /\ ~ret["user"].v[1].success

\* The state of the last published snapshot, "absent" when there is none
PublishedState ==
    IF coordinator_data = None THEN "absent" ELSE coordinator_data[1].state

\* The service name is called in this step: no call is under way before it
\* and the call is made after it
ServiceCalled(name) ==
    /\ NoCallUnderWay
    /\ svc'.name = name
    /\ svc'.at \in {"api", "done"}
    /\ svc'.round = 0

\* The step sends POWER through the coordinator: the client is called with it
SendsPower ==
    /\ svc'.sent = <<POWER>>
    /\ svc'.at = "api"
    /\ op'["user"] = "send_command"
    /\ pending'["user"] = CommandData(POWER)
    /\ pc'["user"] \in {"wait", "flight"}

\* The step sends nothing: the service returns and the client is not called
SendsNothing ==
    /\ svc'.sent = <<>>
    /\ svc'.at = "done"
    /\ UNCHANGED client

\* C34: the media player's turn_on sends POWER when the last published state
\* is off or standby or when there is no state (no snapshot, or a state the
\* player does not know), and nothing otherwise; its turn_off sends POWER
\* unless the state is off or standby, and nothing then.
C34_PowerGuard ==
    [][/\ ServiceCalled("media_player.turn_on")
          => IF PublishedState \in {"off", "standby", "absent", "unknown"}
             THEN SendsPower ELSE SendsNothing
       /\ ServiceCalled("media_player.turn_off")
          => IF PublishedState \in {"off", "standby"}
             THEN SendsNothing ELSE SendsPower]_vars

C34_Witness ==
    /\ svc.name = "media_player.turn_on"
    /\ svc.at = "done"
    /\ svc.sent = <<POWER>>
    /\ svc.refreshes = 1
    /\ coordinator_data # None
    /\ coordinator_data[1].state = "standby"

\* validate_input is over: it returned or it raised
ValidateOver == svc.name = "validate_input" /\ svc.at \in {"done", "raised"}

\* Every request of the call so far failed in the transport
AllUnreachable == \A i \in 1..Len(svc.got) : svc.got[i] = "off"

====
